---- MODULE Spec2Model ----
(***************************************************************************)
(* PyTerm: path jail (app/utils.py), filesystem handlers                    *)
(* (app/commands/fs.py), command registry, command history and the REPL    *)
(* loop (app/cli.py).                                                       *)
(*                                                                         *)
(* Text is modelled as a sequence of one-character strings, so that the    *)
(* substring, prefix, strip and split operations of the code are computed  *)
(* and not assumed.  A path is the record pathlib builds from a string:    *)
(* drive, root and the list of components.                                 *)
(***************************************************************************)
EXTENDS Integers, Sequences, FiniteSets, TLC

VARIABLES
    os_name,      \* os.name of the host: "posix" or "nt"
    cwd,          \* the process working directory (os.getcwd()), a resolved path
    fs_dirs,      \* the directories that exist on the host
    fs_files,     \* the regular files that exist on the host
    jail_called,  \* TRUE once safe_join has been called
    jail_args,    \* the arguments of the last safe_join call
    jail_res,     \* what the last safe_join call returned or raised
    fs_called,    \* TRUE once a filesystem handler has been invoked
    fs_call,      \* the handler invoked and its argument list
    fs_ret,       \* what the invocation did: output, safe_join results, calls
    history,      \* CommandHistory.history
    max_size,     \* CommandHistory.max_size
    current_index, \* CommandHistory.current_index
    history_file, \* HISTORY_FILE on the host
    hist_loaded,  \* the entries the constructor read from HISTORY_FILE
    hist_added,   \* the arguments of the add calls since construction
    hist_accepted, \* the entries read at construction and those add appended
    hist_ret,     \* the last call on the history and what it returned
    registry,     \* the CommandRegistry: commands, command_help, command_categories
    reg_log,      \* the register calls made so far
    reg_ret,      \* the last lookup on the registry and what it returned
    current_dir,  \* PyTermCLI.current_dir
    running,      \* PyTermCLI.running
    cli_state,    \* where PyTermCLI.run stands: "AwaitingInput" or "Stopped"
    clear_ok,     \* whether the host has the program _cmd_clear runs
    steps,        \* the number of iterations of the loop of run so far
    last,         \* the last iteration of the loop: what it read and did
    nl_text,      \* the text handed to NaturalLanguageParser.parse
    nl_ret        \* the call made on the parser and what it returned

jail_vars == <<jail_called, jail_args, jail_res>>
env_vars == <<os_name, cwd, fs_dirs, fs_files>>
fs_vars == <<fs_called, fs_call, fs_ret>>
hist_vars == <<history, max_size, current_index, history_file,
               hist_loaded, hist_added, hist_accepted, hist_ret>>
reg_vars == <<registry, reg_log, reg_ret>>
cli_vars == <<current_dir, running, cli_state, clear_ok, steps, last>>
nl_vars == <<nl_text, nl_ret>>

-----------------------------------------------------------------------------
(* Bounds of the model *)

\* the largest number of path segments handed to one safe_join call
MaxSegs == 2

\* the largest number of arguments handed to one filesystem handler
MaxArgs == 2

\* the largest max_size a CommandHistory is constructed with
MaxHistorySize == 3

\* the largest number of add calls on one CommandHistory
MaxAdds == 3

\* the largest number of entries in the history file at the start
MaxFileLines == 2

\* the largest limit handed to list_history
MaxLimit == 3

\* the largest number of register calls
MaxRegs == 3

\* the largest number of iterations of the loop of run
MaxSteps == 2

-----------------------------------------------------------------------------
(* Python str operations *)

\* str.startswith
StartsWith(s, pre) == Len(pre) <= Len(s) /\ SubSeq(s, 1, Len(pre)) = pre

\* the `sub in s` operator on str
Contains(s, sub) ==
    \E i \in 1..(Len(s) - Len(sub) + 1) : SubSeq(s, i, i + Len(sub) - 1) = sub

\* s split at every character of seps, empty pieces kept
RECURSIVE SplitOn(_, _)
SplitOn(s, seps) ==
    IF \A i \in 1..Len(s) : s[i] \notin seps THEN <<s>>
    ELSE LET k == CHOOSE i \in 1..Len(s) :
                      s[i] \in seps /\ \A j \in 1..(i - 1) : s[j] \notin seps
         IN <<SubSeq(s, 1, k - 1)>> \o SplitOn(SubSeq(s, k + 1, Len(s)), seps)

\* sep.join(parts)
RECURSIVE JoinWith(_, _)
JoinWith(parts, sep) ==
    IF parts = <<>> THEN <<>>
    ELSE IF Len(parts) = 1 THEN parts[1]
    ELSE parts[1] \o sep \o JoinWith(Tail(parts), sep)

LowerCase == <<"a","b","c","d","e","f","g","h","i","j","k","l","m",
               "n","o","p","q","r","s","t","u","v","w","x","y","z">>
UpperCase == <<"A","B","C","D","E","F","G","H","I","J","K","L","M",
               "N","O","P","Q","R","S","T","U","V","W","X","Y","Z">>

\* str.upper and str.lower, one character
Upper(c) ==
    IF \E i \in 1..Len(LowerCase) : LowerCase[i] = c
    THEN UpperCase[CHOOSE i \in 1..Len(LowerCase) : LowerCase[i] = c]
    ELSE c
Lower(c) ==
    IF \E i \in 1..Len(UpperCase) : UpperCase[i] = c
    THEN LowerCase[CHOOSE i \in 1..Len(UpperCase) : UpperCase[i] = c]
    ELSE c

StrUpper(s) == [i \in 1..Len(s) |-> Upper(s[i])]
StrLower(s) == [i \in 1..Len(s) |-> Lower(s[i])]

Whitespace == {" ", "\t", "\n", "\r"}

\* a strip that removes nothing
strip_nothing(s) == s

\* str.strip()
Strip(s) ==
    LET keep == {i \in 1..Len(s) : s[i] \notin Whitespace}
    IN  IF keep = {} THEN <<>>
        ELSE SubSeq(s, CHOOSE i \in keep : \A j \in keep : i <= j,
                       CHOOSE i \in keep : \A j \in keep : j <= i)

-----------------------------------------------------------------------------
(* pathlib: PurePosixPath / PureWindowsPath *)

Letters == {"a","b","c","d","e","f","g","h","i","j","k","l","m",
            "n","o","p","q","r","s","t","u","v","w","x","y","z"}

S_dot == <<".">>
S_dotdot == <<".", ".">>
S_slash == <<"/">>
S_bslash == <<"\\">>
S_tmp == <<"t","m","p">>
S_temp == <<"t","e","m","p">>

\* the separators pathlib accepts when it parses a string
Seps(os) == IF os = "nt" THEN {"/", "\\"} ELSE {"/"}

\* the separator pathlib writes
Sep(os) == IF os = "nt" THEN S_bslash ELSE S_slash

\* the components of a string: empty components and "." are dropped
Components(s, seps) ==
    SelectSeq(SplitOn(s, seps), LAMBDA c : c # <<>> /\ c # S_dot)

NoPath == [drv |-> <<>>, root |-> <<>>, parts |-> <<>>]

\* PurePosixPath(s): exactly two leading slashes are kept as the root "//"
PosixPath(s) ==
    [drv   |-> <<>>,
     root  |-> IF Len(s) >= 1 /\ s[1] = "/"
               THEN IF Len(s) >= 2 /\ s[2] = "/" /\ ~(Len(s) >= 3 /\ s[3] = "/")
                    THEN <<"/", "/">>
                    ELSE S_slash
               ELSE <<>>,
     parts |-> Components(s, {"/"})]

\* PureWindowsPath(s): a drive letter or a UNC \\server\share prefix, then
\* an optional root, then the components
WindowsPath(s) ==
    LET seps == Seps("nt")
        unc  == SplitOn(SubSeq(s, 3, Len(s)), seps)
        isUNC == /\ Len(s) >= 3
                 /\ s[1] \in seps /\ s[2] \in seps /\ s[3] \notin seps
                 /\ Len(unc) >= 2 /\ unc[2] # <<>>
        hasDrive == Len(s) >= 2 /\ s[2] = ":" /\ s[1] \in Letters
        rest == SubSeq(s, 3, Len(s))
    IN  IF isUNC
        THEN [drv   |-> <<"\\", "\\">> \o unc[1] \o S_bslash \o unc[2],
              root  |-> S_bslash,
              parts |-> SelectSeq(SubSeq(unc, 3, Len(unc)),
                                  LAMBDA c : c # <<>> /\ c # S_dot)]
        ELSE IF hasDrive
        THEN [drv   |-> <<s[1], ":">>,
              root  |-> IF Len(rest) >= 1 /\ rest[1] \in seps THEN S_bslash ELSE <<>>,
              parts |-> Components(rest, seps)]
        ELSE [drv   |-> <<>>,
              root  |-> IF Len(s) >= 1 /\ s[1] \in seps THEN S_bslash ELSE <<>>,
              parts |-> Components(s, seps)]

\* Path(s)
PurePath(os, s) == IF os = "nt" THEN WindowsPath(s) ELSE PosixPath(s)

\* str(path)
Str(os, p) ==
    IF p.drv = <<>> /\ p.root = <<>> /\ p.parts = <<>> THEN S_dot
    ELSE p.drv \o p.root \o JoinWith(p.parts, Sep(os))

\* path.is_absolute()
IsAbsolute(os, p) ==
    IF os = "nt" THEN p.drv # <<>> /\ p.root # <<>> ELSE p.root # <<>>

\* len(path.parts): the anchor (drive and root) counts as one part
PartsLen(p) == Len(p.parts) + (IF p.drv \o p.root # <<>> THEN 1 ELSE 0)

\* a / b: an anchored right operand replaces the left one
Join(os, a, b) ==
    IF os = "nt"
    THEN IF b.drv # <<>> /\ b.drv # a.drv THEN b
         ELSE IF b.root # <<>> THEN [drv |-> a.drv, root |-> b.root, parts |-> b.parts]
         ELSE [a EXCEPT !.parts = a.parts \o b.parts]
    ELSE IF b.root # <<>> THEN b
         ELSE [a EXCEPT !.parts = a.parts \o b.parts]

\* path.relative_to(root) does not raise ValueError
IsRelativeTo(p, root) ==
    /\ p.drv = root.drv
    /\ p.root = root.root
    /\ Len(root.parts) <= Len(p.parts)
    /\ SubSeq(p.parts, 1, Len(root.parts)) = root.parts

-----------------------------------------------------------------------------
(* The host: the project root, the symbolic links, Path.resolve() *)

\* ROOT_DIR = Path(__file__).parent.parent: the directory the program is
\* installed in, /app on a POSIX host and c:\app on a Windows host
ROOT_DIR(os) ==
    IF os = "nt" THEN PurePath(os, <<"c",":","\\","a","p","p">>)
    ELSE PurePath(os, <<"/","a","p","p">>)

\* the symbolic links of the host: <root>/out points outside the root
Symlinks(os) ==
    IF os = "nt"
    THEN {[from |-> PurePath(os, <<"c",":","\\","a","p","p","\\","o","u","t">>),
           to   |-> PurePath(os, <<"c",":","\\","e","t","c">>)]}
    ELSE {[from |-> PurePath(os, <<"/","a","p","p","/","o","u","t">>),
           to   |-> PurePath(os, <<"/","e","t","c">>)]}

\* the target of p when p is a symbolic link, p itself otherwise
LinkTarget(os, p) ==
    IF \E l \in Symlinks(os) : l.from = p
    THEN (CHOOSE l \in Symlinks(os) : l.from = p).to
    ELSE p

\* the components of todo applied to base one by one: ".." steps to the
\* parent, a symbolic link is replaced by its target
RECURSIVE Walk(_, _, _)
Walk(os, base, todo) ==
    IF todo = <<>> THEN base
    ELSE LET c == Head(todo)
             nxt == IF c = S_dotdot
                    THEN [base EXCEPT !.parts =
                             IF @ = <<>> THEN <<>> ELSE SubSeq(@, 1, Len(@) - 1)]
                    ELSE LinkTarget(os, [base EXCEPT !.parts = Append(@, c)])
         IN Walk(os, nxt, Tail(todo))

\* the absolute path of p seen from the working directory dir
Absolute(os, dir, p) ==
    IF IsAbsolute(os, p) THEN p
    ELSE IF os = "nt" /\ p.drv # <<>> /\ p.drv # dir.drv
    THEN [p EXCEPT !.root = S_bslash]
    ELSE IF p.root # <<>> THEN [p EXCEPT !.drv = dir.drv]
    ELSE [dir EXCEPT !.parts = dir.parts \o p.parts]

\* path.resolve(): absolute, without "..", symbolic links followed
Resolve(os, dir, p) ==
    LET a == Absolute(os, dir, p)
    IN Walk(os, [a EXCEPT !.parts = <<>>], a.parts)

-----------------------------------------------------------------------------
(* app/utils.py: the path jail *)

MAX_PATH_DEPTH == 50

\* path_in_jail(path): path is given as a string
path_in_jail(os, dir, path) ==
    LET abs_path  == Resolve(os, dir, PurePath(os, path))
        root_path == Resolve(os, dir, ROOT_DIR(os))
    IN  IF IsRelativeTo(abs_path, root_path) THEN TRUE
        ELSE \/ Contains(Str(os, abs_path), S_tmp)
             \/ Contains(Str(os, abs_path), S_temp)

Raise(kind, why) == [kind |-> kind, why |-> why, path |-> NoPath]
Return(p) == [kind |-> "ok", why |-> "", path |-> p]

\* the test of one path component, utils.py line 67
UnsafeComponent(os, normalized) ==
    \/ Contains(Str(os, normalized), S_dotdot)
    \/ (StartsWith(Str(os, normalized), S_slash) /\ os # "nt")

\* the loop of safe_join over its path components, from `result`
RECURSIVE safe_join_loop(_, _, _)
safe_join_loop(os, result, paths) ==
    IF paths = <<>> THEN Return(result)
    ELSE LET path_part == Head(paths) IN
         IF path_part = <<>> THEN safe_join_loop(os, result, Tail(paths))
         ELSE LET normalized == PurePath(os, path_part) IN
              IF UnsafeComponent(os, normalized)
              THEN Raise("SecurityError", "Unsafe path component")
              ELSE LET joined == Join(os, result, normalized) IN
                   IF PartsLen(joined) > MAX_PATH_DEPTH
                   THEN Raise("SecurityError", "Path exceeds maximum depth")
                   ELSE safe_join_loop(os, joined, Tail(paths))

\* safe_join(base_path, *paths), called with working directory dir;
\* dir_ok is FALSE when the working directory has been removed, and then
\* resolving a relative base raises OSError, which line 84 turns into
\* PathError
safe_join(os, dir, dir_ok, base_path, paths) ==
    LET b0   == PurePath(os, base_path)
        base == IF IsAbsolute(os, b0) THEN b0 ELSE Resolve(os, dir, b0)
        r    == safe_join_loop(os, base, paths)
    IN  IF ~IsAbsolute(os, b0) /\ ~dir_ok
        THEN Raise("PathError", "Invalid path operation")
        ELSE IF r.kind # "ok" THEN r
        ELSE LET resolved_result == Resolve(os, dir, r.path) IN
             IF ~path_in_jail(os, dir, Str(os, resolved_result))
             THEN Raise("SecurityError", "Path outside allowed directory")
             ELSE Return(resolved_result)

-----------------------------------------------------------------------------
(* app/utils.py: validate_filename *)

InvalidChars == {"<", ">", ":", "\"", "/", "\\", "|", "?", "*"}

reserved_names ==
    {<<"C","O","N">>, <<"P","R","N">>, <<"A","U","X">>, <<"N","U","L">>}
    \cup {<<"C","O","M",d>> : d \in {"1","2","3","4","5","6","7","8","9"}}
    \cup {<<"L","P","T",d>> : d \in {"1","2","3","4","5","6","7","8","9"}}

validate_filename(filename) ==
    /\ filename # <<>>
    /\ Strip(filename) # <<>>
    /\ \A i \in 1..Len(filename) : filename[i] \notin InvalidChars
    /\ StrUpper(filename) \notin reserved_names

-----------------------------------------------------------------------------
(* The filesystem calls the handlers make.  An invocation carries the      *)
(* directories and files of the host, the output lines, the paths          *)
(* safe_join returned, the arguments for which it raised, and the calls    *)
(* made on the filesystem with their path operand.                         *)

S_dash == <<"-">>
S_dash_p == <<"-", "p">>
S_dash_r == <<"-", "r">>
S_dash_f == <<"-", "f">>

Begin(dirs, files, operands) ==
    [dirs |-> dirs, files |-> files, operands |-> operands, results |-> <<>>,
     jailed |-> {}, raised |-> {}, ops |-> <<>>]

\* results.append(...) or return ...: one line of output
Say(st, msg, text) == [st EXCEPT !.results = Append(@, [msg |-> msg, text |-> text])]

\* safe_join returned p
Jailed(st, p) == [st EXCEPT !.jailed = @ \cup {p}]

\* safe_join raised for the i-th operand
Raised(st, i) == [st EXCEPT !.raised = @ \cup {i}]

\* a call on the filesystem with path operand p, made for the i-th operand
Called(st, call, p, i) ==
    [st EXCEPT !.ops = Append(@, [call |-> call, path |-> p, arg |-> i])]

Done(st) == [st |-> st, err |-> ""]
Fails(st, err) == [st |-> st, err |-> err]

\* path.exists()
Exists(st, p) == p \in st.dirs \cup st.files

\* path.parent and path.name
Parent(p) == [p EXCEPT !.parts = IF @ = <<>> THEN <<>> ELSE SubSeq(@, 1, Len(@) - 1)]
Name(p) == IF p.parts = <<>> THEN <<>> ELSE p.parts[Len(p.parts)]

Ancestors(p) == {[p EXCEPT !.parts = SubSeq(p.parts, 1, n)] : n \in 0..(Len(p.parts) - 1)}

\* p, which lies under src, seen under dst instead
Rebase(p, src, dst) ==
    [dst EXCEPT !.parts = dst.parts \o SubSeq(p.parts, Len(src.parts) + 1, Len(p.parts))]

\* path.mkdir(parents=parents, exist_ok=False)
Path_mkdir(st, p, parents) ==
    IF Exists(st, p) THEN Fails(st, "FileExistsError")
    ELSE IF \E a \in Ancestors(p) : a \in st.files THEN Fails(st, "OSError")
    ELSE IF Parent(p) \notin st.dirs /\ ~parents THEN Fails(st, "OSError")
    ELSE Done([st EXCEPT !.dirs = @ \cup {p} \cup (IF parents THEN Ancestors(p) ELSE {})])

\* path.touch(exist_ok=True)
Path_touch(st, p) ==
    IF Exists(st, p) THEN Done(st)
    ELSE IF Parent(p) \notin st.dirs THEN Fails(st, "OSError")
    ELSE Done([st EXCEPT !.files = @ \cup {p}])

\* path.unlink()
Path_unlink(st, p) == Done([st EXCEPT !.files = @ \ {p}])

\* shutil.rmtree(p): the tree under p goes; a Windows host refuses to remove
\* the working directory of the process after emptying it
shutil_rmtree(os, dir, st, p) ==
    IF os = "nt" /\ dir \in st.dirs /\ IsRelativeTo(dir, p)
    THEN Fails([st EXCEPT !.dirs = {d \in @ : ~IsRelativeTo(d, p) \/ IsRelativeTo(dir, d)},
                          !.files = {f \in @ : ~IsRelativeTo(f, p)}], "OSError")
    ELSE Done([st EXCEPT !.dirs = {d \in @ : ~IsRelativeTo(d, p)},
                         !.files = {f \in @ : ~IsRelativeTo(f, p)}])

\* shutil.copy2(src, dst): into dst when dst is a directory
shutil_copy2(st, src, dst) ==
    LET real_dst == IF dst \in st.dirs THEN [dst EXCEPT !.parts = Append(@, Name(src))] ELSE dst
    IN  IF real_dst \in st.dirs \/ Parent(real_dst) \notin st.dirs \/ real_dst = src
        THEN Fails(st, "OSError")
        ELSE Done([st EXCEPT !.files = @ \cup {real_dst}])

\* shutil.copytree(src, dst, dirs_exist_ok=True)
shutil_copytree(st, src, dst) ==
    IF dst \in st.files \/ Parent(dst) \notin st.dirs THEN Fails(st, "OSError")
    ELSE Done([st EXCEPT
                 !.dirs = @ \cup {Rebase(d, src, dst) : d \in {x \in st.dirs : IsRelativeTo(x, src)}},
                 !.files = @ \cup {Rebase(f, src, dst) : f \in {x \in st.files : IsRelativeTo(x, src)}}])

\* shutil.move(src, dst): into dst when dst is a directory, else onto dst
shutil_move(st, src, dst) ==
    LET real_dst == IF dst \in st.dirs THEN [dst EXCEPT !.parts = Append(@, Name(src))] ELSE dst
    IN  IF dst \in st.dirs /\ dst = src THEN Done(st)
        ELSE IF dst \in st.dirs /\ Exists(st, real_dst) THEN Fails(st, "OSError")
        ELSE IF src \in st.dirs /\ IsRelativeTo(real_dst, src) THEN Fails(st, "OSError")
        ELSE IF Parent(real_dst) \notin st.dirs THEN Fails(st, "OSError")
        ELSE IF src \in st.dirs /\ real_dst \in st.files THEN Fails(st, "OSError")
        ELSE IF src \in st.files
        THEN Done([st EXCEPT !.files = (@ \ {src}) \cup {real_dst}])
        ELSE Done([st EXCEPT
                     !.dirs = {d \in @ : ~IsRelativeTo(d, src)}
                              \cup {Rebase(d, src, real_dst) : d \in {x \in st.dirs : IsRelativeTo(x, src)}},
                     !.files = {f \in @ : ~IsRelativeTo(f, src)}
                              \cup {Rebase(f, src, real_dst) : f \in {x \in st.files : IsRelativeTo(x, src)}}])

-----------------------------------------------------------------------------
(* app/commands/fs.py: cmd_mkdir, cmd_rm, cmd_touch, cmd_cp, cmd_mv *)

\* jail_target without the jail: the operand resolved as it stands
jail_target_unchecked(os, dir, st, name) ==
    Return(Resolve(os, dir, PurePath(os, name)))

\* safe_join(".", name) as the handlers call it
jail_target(os, dir, st, name) ==
    safe_join(os, dir, dir \in st.dirs, S_dot, <<name>>)

\* the one element of a set of one element; Only({e(x) : x \in {v}}) is e(v)
\* with v computed once
Only(S) == CHOOSE x \in S : TRUE

\* the arguments that are not options
NonOptions(args) == SelectSeq(args, LAMBDA a : ~StartsWith(a, S_dash))

HasArg(args, opt) == \E k \in 1..Len(args) : args[k] = opt

\* the body of the loop of cmd_mkdir for the i-th directory
mkdir_one(os, dir, st, directory, i, create_parents) ==
    IF ~validate_filename(directory) THEN Say(st, "invalid_path", directory)
    ELSE Only({
         IF r.kind = "SecurityError" THEN Say(Raised(st, i), "Security error", directory)
         ELSE IF r.kind = "PathError"
         THEN Say(Raised(st, i), "Error creating directory", directory)
         ELSE Only({
              IF m.err = "FileExistsError" THEN Say(m.st, "already exists", directory)
              ELSE IF m.err = "OSError" THEN Say(m.st, "permission_denied", directory)
              ELSE Say(m.st, "directory_created", Str(os, r.path))
              : m \in {Path_mkdir(Called(Jailed(st, r.path), "mkdir", r.path, i),
                                  r.path, create_parents)} })
         : r \in {jail_target(os, dir, st, directory)} })

\* the body of the loop of cmd_rm for the i-th target
rm_one(os, dir, st, target, i, recursive) ==
    Only({
    IF r.kind = "SecurityError" THEN Say(Raised(st, i), "Security error", target)
    ELSE IF r.kind = "PathError" THEN Say(Raised(st, i), "Error removing", target)
    ELSE Only({
         IF ~Exists(st1, r.path)
         THEN Say(st1, "file_not_found", Str(os, r.path))
         ELSE IF r.path \in st1.dirs
         THEN IF ~recursive
              THEN Say(st1, "use -r for recursive removal", target)
              ELSE Only({
                   IF m.err = "" THEN Say(m.st, "directory_deleted", Str(os, r.path))
                   ELSE Say(m.st, "permission_denied", target)
                   : m \in {shutil_rmtree(os, dir, Called(st1, "rmtree", r.path, i),
                                          r.path)} })
         ELSE Say(Path_unlink(Called(st1, "unlink", r.path, i), r.path).st,
                  "file_deleted", Str(os, r.path))
         : st1 \in {Jailed(st, r.path)} })
    : r \in {jail_target(os, dir, st, target)} })

\* the body of the loop of cmd_touch for the i-th filename
touch_one(os, dir, st, filename, i) ==
    IF ~validate_filename(filename) THEN Say(st, "invalid_path", filename)
    ELSE Only({
         IF r.kind = "SecurityError" THEN Say(Raised(st, i), "Security error", filename)
         ELSE IF r.kind = "PathError" THEN Say(Raised(st, i), "Error touching", filename)
         ELSE Only({
              IF m.err = "" THEN Say(m.st, "Touched", filename)
              ELSE Say(m.st, "permission_denied", filename)
              : m \in {Path_touch(Called(Jailed(st, r.path), "touch", r.path, i), r.path)} })
         : r \in {jail_target(os, dir, st, filename)} })

\* the body of the loop of cmd_cp for the i-th source
cp_one(os, dir, st, source, i, destination, many, recursive) ==
    Only({
    IF rs.kind = "SecurityError" THEN Say(Raised(st, i), "Security error", source)
    ELSE IF rs.kind = "PathError" THEN Say(Raised(st, i), "Error copying", source)
    ELSE Only({
         IF rd.kind = "SecurityError"
         THEN Say(Raised(Jailed(st, rs.path), 0), "Security error", source)
         ELSE IF rd.kind = "PathError"
         THEN Say(Raised(Jailed(st, rs.path), 0), "Error copying", source)
         ELSE Only({
              IF ~Exists(st2, rs.path)
              THEN Say(st2, "file_not_found", Str(os, rs.path))
              ELSE IF rs.path \in st2.dirs /\ ~recursive
              THEN Say(st2, "use -r for recursive copy", source)
              ELSE Only({
                   IF m.err = "" THEN Say(m.st, "Copied", source)
                   ELSE Say(m.st, "permission_denied", source)
                   : m \in {IF rs.path \in st2.dirs
                            THEN shutil_copytree(Called(st2, "copy", dest_path, 0),
                                                 rs.path, dest_path)
                            ELSE shutil_copy2(Called(st2, "copy", dest_path, 0),
                                              rs.path, dest_path)} })
              : st2 \in {Jailed(Jailed(st, rs.path), rd.path)},
                dest_path \in {IF many
                               THEN [rd.path EXCEPT !.parts = Append(@, Name(rs.path))]
                               ELSE rd.path} })
         : rd \in {jail_target(os, dir, Jailed(st, rs.path), destination)} })
    : rs \in {jail_target(os, dir, st, source)} })

\* the loops of the handlers over their operands, from the i-th on
RECURSIVE mkdir_loop(_, _, _, _, _)
mkdir_loop(os, dir, st, i, create_parents) ==
    IF i > Len(st.operands) THEN st
    ELSE Only({ mkdir_loop(os, dir, st1, i + 1, create_parents)
                : st1 \in {mkdir_one(os, dir, st, st.operands[i], i, create_parents)} })

RECURSIVE rm_loop(_, _, _, _, _)
rm_loop(os, dir, st, i, recursive) ==
    IF i > Len(st.operands) THEN st
    ELSE Only({ rm_loop(os, dir, st1, i + 1, recursive)
                : st1 \in {rm_one(os, dir, st, st.operands[i], i, recursive)} })

RECURSIVE touch_loop(_, _, _, _)
touch_loop(os, dir, st, i) ==
    IF i > Len(st.operands) THEN st
    ELSE Only({ touch_loop(os, dir, st1, i + 1)
                : st1 \in {touch_one(os, dir, st, st.operands[i], i)} })

RECURSIVE cp_loop(_, _, _, _, _, _, _)
cp_loop(os, dir, st, i, destination, many, recursive) ==
    IF i > Len(st.operands) THEN st
    ELSE Only({ cp_loop(os, dir, st1, i + 1, destination, many, recursive)
                : st1 \in {cp_one(os, dir, st, st.operands[i], i, destination,
                                   many, recursive)} })

cmd_mkdir(os, dir, dirs, files, args) ==
    LET create_parents == HasArg(args, S_dash_p)
        directories == NonOptions(args)
        st0 == Begin(dirs, files, directories)
    IN  IF args = <<>> THEN Say(st0, "usage", <<>>)
        ELSE IF directories = <<>> THEN Say(st0, "No directories specified", <<>>)
        ELSE mkdir_loop(os, dir, st0, 1, create_parents)

\* rm that removes directories whether or not -r was given
cmd_rm_always_recursive(os, dir, dirs, files, args) ==
    LET targets == NonOptions(args)
        st0 == Begin(dirs, files, targets)
    IN  IF args = <<>> THEN Say(st0, "usage", <<>>)
        ELSE IF targets = <<>> THEN Say(st0, "No files or directories specified", <<>>)
        ELSE rm_loop(os, dir, st0, 1, TRUE)

cmd_rm(os, dir, dirs, files, args) ==
    LET recursive == HasArg(args, S_dash_r)
        targets == NonOptions(args)
        st0 == Begin(dirs, files, targets)
    IN  IF args = <<>> THEN Say(st0, "usage", <<>>)
        ELSE IF targets = <<>> THEN Say(st0, "No files or directories specified", <<>>)
        ELSE rm_loop(os, dir, st0, 1, recursive)

cmd_touch(os, dir, dirs, files, args) ==
    LET st0 == Begin(dirs, files, args)
    IN  IF args = <<>> THEN Say(st0, "usage", <<>>)
        ELSE touch_loop(os, dir, st0, 1)

\* the argument loop of cmd_cp, from the k-th argument: `destination` starts
\* as None and is assigned only in the branch taken when it is not None
RECURSIVE cp_parse(_, _, _)
cp_parse(args, k, acc) ==
    IF k > Len(args) THEN acc
    ELSE IF args[k] = S_dash_r
    THEN cp_parse(args, k + 1, [acc EXCEPT !.recursive = TRUE])
    ELSE IF ~StartsWith(args[k], S_dash)
    THEN IF ~acc.has_destination
         THEN cp_parse(args, k + 1, [acc EXCEPT !.sources = Append(@, args[k])])
         ELSE [acc EXCEPT !.destination = args[k]]
    ELSE cp_parse(args, k + 1, acc)

cmd_cp(os, dir, dirs, files, args) ==
    LET pa == cp_parse(args, 1, [recursive |-> FALSE, sources |-> <<>>,
                                 has_destination |-> FALSE, destination |-> <<>>])
        st0 == Begin(dirs, files, pa.sources)
    IN  IF Len(args) < 2 THEN Say(st0, "usage", <<>>)
        ELSE IF pa.sources = <<>> \/ ~pa.has_destination \/ pa.destination = <<>>
        THEN Say(st0, "Source and destination must be specified", <<>>)
        ELSE IF Len(pa.sources) > 1
                /\ Resolve(os, dir, PurePath(os, pa.destination)) \notin dirs
        THEN Say(st0, "Multiple sources require destination to be a directory", <<>>)
        ELSE cp_loop(os, dir, st0, 1, pa.destination, Len(pa.sources) > 1, pa.recursive)

cmd_mv(os, dir, dirs, files, args) ==
    LET st0 == Begin(dirs, files, IF Len(args) < 2 THEN args ELSE SubSeq(args, 1, 2)) IN
    IF Len(args) < 2 THEN Say(st0, "usage", <<>>)
    ELSE LET source == args[1]
             destination == args[2]
         IN  Only({
             IF rs.kind = "SecurityError" THEN Say(Raised(st0, 1), "Security error", source)
             ELSE IF rs.kind = "PathError" THEN Say(Raised(st0, 1), "Error moving", source)
             ELSE Only({
                  IF rd.kind = "SecurityError"
                  THEN Say(Raised(Jailed(st0, rs.path), 2), "Security error", source)
                  ELSE IF rd.kind = "PathError"
                  THEN Say(Raised(Jailed(st0, rs.path), 2), "Error moving", source)
                  ELSE Only({
                       IF ~Exists(st2, rs.path)
                       THEN Say(st2, "file_not_found", Str(os, rs.path))
                       ELSE Only({
                            IF m.err = "" THEN Say(m.st, "Moved", source)
                            ELSE Say(m.st, "permission_denied", source)
                            : m \in {shutil_move(Called(Called(st2, "move", rs.path, 1),
                                                        "move", rd.path, 2),
                                                 rs.path, rd.path)} })
                       : st2 \in {Jailed(Jailed(st0, rs.path), rd.path)} })
                  : rd \in {jail_target(os, dir, Jailed(st0, rs.path), destination)} })
             : rs \in {jail_target(os, dir, st0, source)} })

-----------------------------------------------------------------------------
(* shlex.split and str.split, as parse_command and the resolver use them *)

\* s.split(): the maximal runs of characters that are not whitespace
RECURSIVE SplitWhitespace(_)
SplitWhitespace(s) ==
    IF \A i \in 1..Len(s) : s[i] \in Whitespace THEN <<>>
    ELSE LET b == CHOOSE i \in 1..Len(s) :
                      s[i] \notin Whitespace /\ \A j \in 1..(i - 1) : s[j] \in Whitespace
             e == CHOOSE i \in b..Len(s) :
                      /\ \A j \in b..i : s[j] \notin Whitespace
                      /\ (i = Len(s) \/ s[i + 1] \in Whitespace)
         IN  <<SubSeq(s, b, e)>> \o SplitWhitespace(SubSeq(s, e + 1, Len(s)))

\* the lexer of shlex in POSIX mode with whitespace_split, from the i-th
\* character: state is " " between tokens, "a" in a word, a quote character
\* inside quotes, "\\" after an escape; esc is the state the escape returns to
RECURSIVE shlex_read(_, _, _, _, _, _)
shlex_read(s, i, state, esc, token, parts) ==
    IF i > Len(s)
    THEN IF state \in {"'", "\""} THEN [error |-> "No closing quotation", parts |-> <<>>]
         ELSE IF state = "\\" THEN [error |-> "No escaped character", parts |-> <<>>]
         ELSE IF state = "a" THEN [error |-> "", parts |-> Append(parts, token)]
         ELSE [error |-> "", parts |-> parts]
    ELSE LET c == s[i] IN
         IF state = " "
         THEN IF c \in Whitespace THEN shlex_read(s, i + 1, " ", esc, <<>>, parts)
              ELSE IF c = "\\" THEN shlex_read(s, i + 1, "\\", "a", <<>>, parts)
              ELSE IF c \in {"'", "\""} THEN shlex_read(s, i + 1, c, esc, <<>>, parts)
              ELSE shlex_read(s, i + 1, "a", esc, <<c>>, parts)
         ELSE IF state = "a"
         THEN IF c \in Whitespace
              THEN shlex_read(s, i + 1, " ", esc, <<>>, Append(parts, token))
              ELSE IF c \in {"'", "\""} THEN shlex_read(s, i + 1, c, esc, token, parts)
              ELSE IF c = "\\" THEN shlex_read(s, i + 1, "\\", "a", token, parts)
              ELSE shlex_read(s, i + 1, "a", esc, Append(token, c), parts)
         ELSE IF state \in {"'", "\""}
         THEN IF c = state THEN shlex_read(s, i + 1, "a", esc, token, parts)
              ELSE IF c = "\\" /\ state = "\""
              THEN shlex_read(s, i + 1, "\\", state, token, parts)
              ELSE shlex_read(s, i + 1, state, esc, Append(token, c), parts)
         ELSE \* state = "\\": the character after an escape
              IF esc \in {"'", "\""} /\ c # "\\" /\ c # esc
              THEN shlex_read(s, i + 1, esc, esc, token \o <<"\\", c>>, parts)
              ELSE shlex_read(s, i + 1, esc, esc, Append(token, c), parts)

\* shlex.split(s): the tokens, or the message of the ValueError it raises
shlex_split(s) == shlex_read(s, 1, " ", "a", <<>>, <<>>)

-----------------------------------------------------------------------------
(* re.search on the regular expressions of the pattern tables *)

\* the nodes of a regular expression: a literal text, \s+, .+, an optional
\* part (?:r)? or x?, an alternation (?:a|b), a capturing group (r)
Lit(s) == [t |-> "lit", s |-> s, rs |-> <<>>]
Spaces == [t |-> "spaces", s |-> <<>>, rs |-> <<>>]
AnyChars == [t |-> "any", s |-> <<>>, rs |-> <<>>]
Opt(r) == [t |-> "opt", s |-> <<>>, rs |-> <<r>>]
Alt(rs) == [t |-> "alt", s |-> <<>>, rs |-> rs]
Group(r) == [t |-> "group", s |-> <<>>, rs |-> <<r>>]

NoGroup == [set |-> FALSE, text |-> <<>>]

\* the sequences of a sequence, one after the other
RECURSIVE Flatten(_)
Flatten(ss) == IF ss = <<>> THEN <<>> ELSE Head(ss) \o Flatten(Tail(ss))

\* how many characters from offset i on are whitespace (or, for ".", are
\* not a newline)
RECURSIVE RunLength(_, _, _)
RunLength(text, i, spaces) ==
    IF i >= Len(text) THEN 0
    ELSE IF (spaces /\ text[i + 1] \in Whitespace) \/ (~spaces /\ text[i + 1] # "\n")
    THEN 1 + RunLength(text, i + 1, spaces)
    ELSE 0

\* the matches of a sequence of nodes from offset i, as [e: the offset where
\* the match ends, g: group 1], in the order the backtracking finds them:
\* a repetition takes as much as it can first, an optional part is tried
\* first, the alternatives are tried from left to right; re.IGNORECASE
RECURSIVE Matches(_, _, _, _)
RECURSIVE MatchNode(_, _, _, _)

\* the list f, every element of it computed
AsTuple(f) == <<>> \o f

\* the pieces of a list of lists, one after the other
Chain(ss) == Only({ Flatten(v) : v \in {AsTuple(ss)} })

\* the matches of the one node n from offset i
MatchNode(n, text, i, g) ==
    CASE n.t = "lit" ->
           IF i + Len(n.s) <= Len(text)
              /\ StrLower(SubSeq(text, i + 1, i + Len(n.s))) = StrLower(n.s)
           THEN << [e |-> i + Len(n.s), g |-> g] >>
           ELSE <<>>
      [] n.t \in {"spaces", "any"} ->
           Only({ [j \in 1..k |-> [e |-> i + k - j + 1, g |-> g]]
                  : k \in {RunLength(text, i, n.t = "spaces")} })
      [] n.t = "opt" -> Matches(n.rs[1], text, i, g) \o << [e |-> i, g |-> g] >>
      [] n.t = "alt" -> Chain([j \in 1..Len(n.rs) |-> Matches(n.rs[j], text, i, g)])
      [] n.t = "group" ->
           Only({ [j \in 1..Len(ms) |->
                      [e |-> ms[j].e,
                       g |-> [set |-> TRUE, text |-> SubSeq(text, i + 1, ms[j].e)]]]
                  : ms \in {Matches(n.rs[1], text, i, g)} })

Matches(nodes, text, i, g) ==
    IF nodes = <<>> THEN << [e |-> i, g |-> g] >>
    ELSE Only({ Chain([j \in 1..Len(first) |->
                          Matches(Tail(nodes), text, first[j].e, first[j].g)])
                : first \in {MatchNode(Head(nodes), text, i, g)} })

\* re.search(pattern, text, re.IGNORECASE): the first match from the leftmost
\* offset that has one
re_search(re, text) ==
    Only({
    IF \A k \in 1..Len(found) : found[k] = <<>>
    THEN [matched |-> FALSE, groups |-> NoGroup]
    ELSE [matched |-> TRUE,
          groups |-> Head(found[CHOOSE a \in 1..Len(found) :
                                  /\ found[a] # <<>>
                                  /\ \A b \in 1..(a - 1) : found[b] = <<>>]).g]
    : found \in {AsTuple([k \in 1..(Len(text) + 1) |->
                             Matches(re, text, k - 1, NoGroup)])} })

-----------------------------------------------------------------------------
(* app/config.py: NL_PATTERNS; app/nlc.py: NaturalLanguageParser *)

\* NL_PATTERNS of config.py, in the order of the dict
NL_PATTERNS ==
    <<
       [src |-> "show\\s+(?:me\\s+)?(?:the\\s+)?files?",
        re |-> <<Lit(<<"s","h","o","w">>), Spaces, Opt(<<Lit(<<"m","e">>), Spaces>>), Opt(<<Lit(<<"t","h","e">>), Spaces>>), Lit(<<"f","i","l","e">>), Opt(<<Lit(<<"s">>)>>)>>,
        command |-> <<"l","s">>],
       [src |-> "list\\s+(?:the\\s+)?(?:files?|directory)",
        re |-> <<Lit(<<"l","i","s","t">>), Spaces, Opt(<<Lit(<<"t","h","e">>), Spaces>>), Alt(<<<<Lit(<<"f","i","l","e">>), Opt(<<Lit(<<"s">>)>>)>>, <<Lit(<<"d","i","r","e","c","t","o","r","y">>)>>>>)>>,
        command |-> <<"l","s">>],
       [src |-> "go\\s+to\\s+(.+)",
        re |-> <<Lit(<<"g","o">>), Spaces, Lit(<<"t","o">>), Spaces, Group(<<AnyChars>>)>>,
        command |-> <<"c","d">>],
       [src |-> "where\\s+am\\s+i",
        re |-> <<Lit(<<"w","h","e","r","e">>), Spaces, Lit(<<"a","m">>), Spaces, Lit(<<"i">>)>>,
        command |-> <<"p","w","d">>],
       [src |-> "create\\s+(?:a\\s+)?(?:directory|folder)\\s+(.+)",
        re |-> <<Lit(<<"c","r","e","a","t","e">>), Spaces, Opt(<<Lit(<<"a">>), Spaces>>), Alt(<<<<Lit(<<"d","i","r","e","c","t","o","r","y">>)>>, <<Lit(<<"f","o","l","d","e","r">>)>>>>), Spaces, Group(<<AnyChars>>)>>,
        command |-> <<"m","k","d","i","r">>],
       [src |-> "delete\\s+(?:the\\s+)?(?:file|directory)\\s+(.+)",
        re |-> <<Lit(<<"d","e","l","e","t","e">>), Spaces, Opt(<<Lit(<<"t","h","e">>), Spaces>>), Alt(<<<<Lit(<<"f","i","l","e">>)>>, <<Lit(<<"d","i","r","e","c","t","o","r","y">>)>>>>), Spaces, Group(<<AnyChars>>)>>,
        command |-> <<"r","m">>],
       [src |-> "how\\s+(?:much\\s+)?(?:cpu|memory|ram)",
        re |-> <<Lit(<<"h","o","w">>), Spaces, Opt(<<Lit(<<"m","u","c","h">>), Spaces>>), Alt(<<<<Lit(<<"c","p","u">>)>>, <<Lit(<<"m","e","m","o","r","y">>)>>, <<Lit(<<"r","a","m">>)>>>>)>>,
        command |-> <<"c","p","u">>],
       [src |-> "show\\s+(?:me\\s+)?(?:running\\s+)?processes?",
        re |-> <<Lit(<<"s","h","o","w">>), Spaces, Opt(<<Lit(<<"m","e">>), Spaces>>), Opt(<<Lit(<<"r","u","n","n","i","n","g">>), Spaces>>), Lit(<<"p","r","o","c","e","s","s","e">>), Opt(<<Lit(<<"s">>)>>)>>,
        command |-> <<"p","s">>]
    >>

\* the dict literal of _build_extended_patterns, in the order of the source
extended_patterns ==
    <<
       [src |-> "create\\s+(?:a\\s+)?(?:new\\s+)?(?:directory|folder|dir)\\s+(.+)",
        re |-> <<Lit(<<"c","r","e","a","t","e">>), Spaces, Opt(<<Lit(<<"a">>), Spaces>>), Opt(<<Lit(<<"n","e","w">>), Spaces>>), Alt(<<<<Lit(<<"d","i","r","e","c","t","o","r","y">>)>>, <<Lit(<<"f","o","l","d","e","r">>)>>, <<Lit(<<"d","i","r">>)>>>>), Spaces, Group(<<AnyChars>>)>>,
        command |-> <<"m","k","d","i","r">>],
       [src |-> "make\\s+(?:a\\s+)?(?:new\\s+)?(?:directory|folder|dir)\\s+(.+)",
        re |-> <<Lit(<<"m","a","k","e">>), Spaces, Opt(<<Lit(<<"a">>), Spaces>>), Opt(<<Lit(<<"n","e","w">>), Spaces>>), Alt(<<<<Lit(<<"d","i","r","e","c","t","o","r","y">>)>>, <<Lit(<<"f","o","l","d","e","r">>)>>, <<Lit(<<"d","i","r">>)>>>>), Spaces, Group(<<AnyChars>>)>>,
        command |-> <<"m","k","d","i","r">>],
       [src |-> "new\\s+(?:directory|folder|dir)\\s+(.+)",
        re |-> <<Lit(<<"n","e","w">>), Spaces, Alt(<<<<Lit(<<"d","i","r","e","c","t","o","r","y">>)>>, <<Lit(<<"f","o","l","d","e","r">>)>>, <<Lit(<<"d","i","r">>)>>>>), Spaces, Group(<<AnyChars>>)>>,
        command |-> <<"m","k","d","i","r">>],
       [src |-> "remove\\s+(?:the\\s+)?(?:directory|folder|dir)\\s+(.+)",
        re |-> <<Lit(<<"r","e","m","o","v","e">>), Spaces, Opt(<<Lit(<<"t","h","e">>), Spaces>>), Alt(<<<<Lit(<<"d","i","r","e","c","t","o","r","y">>)>>, <<Lit(<<"f","o","l","d","e","r">>)>>, <<Lit(<<"d","i","r">>)>>>>), Spaces, Group(<<AnyChars>>)>>,
        command |-> <<"r","m"," ","-","r">>],
       [src |-> "delete\\s+(?:the\\s+)?(?:directory|folder|dir)\\s+(.+)",
        re |-> <<Lit(<<"d","e","l","e","t","e">>), Spaces, Opt(<<Lit(<<"t","h","e">>), Spaces>>), Alt(<<<<Lit(<<"d","i","r","e","c","t","o","r","y">>)>>, <<Lit(<<"f","o","l","d","e","r">>)>>, <<Lit(<<"d","i","r">>)>>>>), Spaces, Group(<<AnyChars>>)>>,
        command |-> <<"r","m"," ","-","r">>],
       [src |-> "erase\\s+(?:the\\s+)?(?:directory|folder|dir)\\s+(.+)",
        re |-> <<Lit(<<"e","r","a","s","e">>), Spaces, Opt(<<Lit(<<"t","h","e">>), Spaces>>), Alt(<<<<Lit(<<"d","i","r","e","c","t","o","r","y">>)>>, <<Lit(<<"f","o","l","d","e","r">>)>>, <<Lit(<<"d","i","r">>)>>>>), Spaces, Group(<<AnyChars>>)>>,
        command |-> <<"r","m"," ","-","r">>],
       [src |-> "create\\s+(?:a\\s+)?(?:new\\s+)?file\\s+(.+)",
        re |-> <<Lit(<<"c","r","e","a","t","e">>), Spaces, Opt(<<Lit(<<"a">>), Spaces>>), Opt(<<Lit(<<"n","e","w">>), Spaces>>), Lit(<<"f","i","l","e">>), Spaces, Group(<<AnyChars>>)>>,
        command |-> <<"t","o","u","c","h">>],
       [src |-> "make\\s+(?:a\\s+)?(?:new\\s+)?file\\s+(.+)",
        re |-> <<Lit(<<"m","a","k","e">>), Spaces, Opt(<<Lit(<<"a">>), Spaces>>), Opt(<<Lit(<<"n","e","w">>), Spaces>>), Lit(<<"f","i","l","e">>), Spaces, Group(<<AnyChars>>)>>,
        command |-> <<"t","o","u","c","h">>],
       [src |-> "new\\s+file\\s+(.+)",
        re |-> <<Lit(<<"n","e","w">>), Spaces, Lit(<<"f","i","l","e">>), Spaces, Group(<<AnyChars>>)>>,
        command |-> <<"t","o","u","c","h">>],
       [src |-> "remove\\s+(?:the\\s+)?file\\s+(.+)",
        re |-> <<Lit(<<"r","e","m","o","v","e">>), Spaces, Opt(<<Lit(<<"t","h","e">>), Spaces>>), Lit(<<"f","i","l","e">>), Spaces, Group(<<AnyChars>>)>>,
        command |-> <<"r","m">>],
       [src |-> "delete\\s+(?:the\\s+)?file\\s+(.+)",
        re |-> <<Lit(<<"d","e","l","e","t","e">>), Spaces, Opt(<<Lit(<<"t","h","e">>), Spaces>>), Lit(<<"f","i","l","e">>), Spaces, Group(<<AnyChars>>)>>,
        command |-> <<"r","m">>],
       [src |-> "erase\\s+(?:the\\s+)?file\\s+(.+)",
        re |-> <<Lit(<<"e","r","a","s","e">>), Spaces, Opt(<<Lit(<<"t","h","e">>), Spaces>>), Lit(<<"f","i","l","e">>), Spaces, Group(<<AnyChars>>)>>,
        command |-> <<"r","m">>],
       [src |-> "go\\s+to\\s+(.+)",
        re |-> <<Lit(<<"g","o">>), Spaces, Lit(<<"t","o">>), Spaces, Group(<<AnyChars>>)>>,
        command |-> <<"c","d">>],
       [src |-> "navigate\\s+to\\s+(.+)",
        re |-> <<Lit(<<"n","a","v","i","g","a","t","e">>), Spaces, Lit(<<"t","o">>), Spaces, Group(<<AnyChars>>)>>,
        command |-> <<"c","d">>],
       [src |-> "enter\\s+(.+)",
        re |-> <<Lit(<<"e","n","t","e","r">>), Spaces, Group(<<AnyChars>>)>>,
        command |-> <<"c","d">>],
       [src |-> "open\\s+(.+)",
        re |-> <<Lit(<<"o","p","e","n">>), Spaces, Group(<<AnyChars>>)>>,
        command |-> <<"c","d">>],
       [src |-> "where\\s+am\\s+i",
        re |-> <<Lit(<<"w","h","e","r","e">>), Spaces, Lit(<<"a","m">>), Spaces, Lit(<<"i">>)>>,
        command |-> <<"p","w","d">>],
       [src |-> "current\\s+directory",
        re |-> <<Lit(<<"c","u","r","r","e","n","t">>), Spaces, Lit(<<"d","i","r","e","c","t","o","r","y">>)>>,
        command |-> <<"p","w","d">>],
       [src |-> "show\\s+current\\s+path",
        re |-> <<Lit(<<"s","h","o","w">>), Spaces, Lit(<<"c","u","r","r","e","n","t">>), Spaces, Lit(<<"p","a","t","h">>)>>,
        command |-> <<"p","w","d">>],
       [src |-> "what\\s+directory\\s+am\\s+i\\s+in",
        re |-> <<Lit(<<"w","h","a","t">>), Spaces, Lit(<<"d","i","r","e","c","t","o","r","y">>), Spaces, Lit(<<"a","m">>), Spaces, Lit(<<"i">>), Spaces, Lit(<<"i","n">>)>>,
        command |-> <<"p","w","d">>],
       [src |-> "show\\s+(?:me\\s+)?(?:the\\s+)?files?",
        re |-> <<Lit(<<"s","h","o","w">>), Spaces, Opt(<<Lit(<<"m","e">>), Spaces>>), Opt(<<Lit(<<"t","h","e">>), Spaces>>), Lit(<<"f","i","l","e">>), Opt(<<Lit(<<"s">>)>>)>>,
        command |-> <<"l","s">>],
       [src |-> "list\\s+(?:the\\s+)?(?:files?|directory)",
        re |-> <<Lit(<<"l","i","s","t">>), Spaces, Opt(<<Lit(<<"t","h","e">>), Spaces>>), Alt(<<<<Lit(<<"f","i","l","e">>), Opt(<<Lit(<<"s">>)>>)>>, <<Lit(<<"d","i","r","e","c","t","o","r","y">>)>>>>)>>,
        command |-> <<"l","s">>],
       [src |-> "what\\s+files\\s+are\\s+here",
        re |-> <<Lit(<<"w","h","a","t">>), Spaces, Lit(<<"f","i","l","e","s">>), Spaces, Lit(<<"a","r","e">>), Spaces, Lit(<<"h","e","r","e">>)>>,
        command |-> <<"l","s">>],
       [src |-> "display\\s+(?:the\\s+)?files?",
        re |-> <<Lit(<<"d","i","s","p","l","a","y">>), Spaces, Opt(<<Lit(<<"t","h","e">>), Spaces>>), Lit(<<"f","i","l","e">>), Opt(<<Lit(<<"s">>)>>)>>,
        command |-> <<"l","s">>],
       [src |-> "see\\s+(?:the\\s+)?files?",
        re |-> <<Lit(<<"s","e","e">>), Spaces, Opt(<<Lit(<<"t","h","e">>), Spaces>>), Lit(<<"f","i","l","e">>), Opt(<<Lit(<<"s">>)>>)>>,
        command |-> <<"l","s">>],
       [src |-> "show\\s+(?:me\\s+)?(?:all\\s+)?files?",
        re |-> <<Lit(<<"s","h","o","w">>), Spaces, Opt(<<Lit(<<"m","e">>), Spaces>>), Opt(<<Lit(<<"a","l","l">>), Spaces>>), Lit(<<"f","i","l","e">>), Opt(<<Lit(<<"s">>)>>)>>,
        command |-> <<"l","s"," ","-","a">>],
       [src |-> "list\\s+(?:all\\s+)?files?",
        re |-> <<Lit(<<"l","i","s","t">>), Spaces, Opt(<<Lit(<<"a","l","l">>), Spaces>>), Lit(<<"f","i","l","e">>), Opt(<<Lit(<<"s">>)>>)>>,
        command |-> <<"l","s"," ","-","a">>],
       [src |-> "show\\s+hidden\\s+files?",
        re |-> <<Lit(<<"s","h","o","w">>), Spaces, Lit(<<"h","i","d","d","e","n">>), Spaces, Lit(<<"f","i","l","e">>), Opt(<<Lit(<<"s">>)>>)>>,
        command |-> <<"l","s"," ","-","a">>],
       [src |-> "show\\s+(?:me\\s+)?(?:the\\s+)?contents?\\s+of\\s+(.+)",
        re |-> <<Lit(<<"s","h","o","w">>), Spaces, Opt(<<Lit(<<"m","e">>), Spaces>>), Opt(<<Lit(<<"t","h","e">>), Spaces>>), Lit(<<"c","o","n","t","e","n","t">>), Opt(<<Lit(<<"s">>)>>), Spaces, Lit(<<"o","f">>), Spaces, Group(<<AnyChars>>)>>,
        command |-> <<"c","a","t">>],
       [src |-> "display\\s+(?:the\\s+)?contents?\\s+of\\s+(.+)",
        re |-> <<Lit(<<"d","i","s","p","l","a","y">>), Spaces, Opt(<<Lit(<<"t","h","e">>), Spaces>>), Lit(<<"c","o","n","t","e","n","t">>), Opt(<<Lit(<<"s">>)>>), Spaces, Lit(<<"o","f">>), Spaces, Group(<<AnyChars>>)>>,
        command |-> <<"c","a","t">>],
       [src |-> "read\\s+(?:the\\s+)?file\\s+(.+)",
        re |-> <<Lit(<<"r","e","a","d">>), Spaces, Opt(<<Lit(<<"t","h","e">>), Spaces>>), Lit(<<"f","i","l","e">>), Spaces, Group(<<AnyChars>>)>>,
        command |-> <<"c","a","t">>],
       [src |-> "view\\s+(?:the\\s+)?file\\s+(.+)",
        re |-> <<Lit(<<"v","i","e","w">>), Spaces, Opt(<<Lit(<<"t","h","e">>), Spaces>>), Lit(<<"f","i","l","e">>), Spaces, Group(<<AnyChars>>)>>,
        command |-> <<"c","a","t">>],
       [src |-> "open\\s+(?:the\\s+)?file\\s+(.+)",
        re |-> <<Lit(<<"o","p","e","n">>), Spaces, Opt(<<Lit(<<"t","h","e">>), Spaces>>), Lit(<<"f","i","l","e">>), Spaces, Group(<<AnyChars>>)>>,
        command |-> <<"c","a","t">>],
       [src |-> "copy\\s+(.+)",
        re |-> <<Lit(<<"c","o","p","y">>), Spaces, Group(<<AnyChars>>)>>,
        command |-> <<"c","p">>],
       [src |-> "duplicate\\s+(.+)",
        re |-> <<Lit(<<"d","u","p","l","i","c","a","t","e">>), Spaces, Group(<<AnyChars>>)>>,
        command |-> <<"c","p">>],
       [src |-> "backup\\s+(.+)",
        re |-> <<Lit(<<"b","a","c","k","u","p">>), Spaces, Group(<<AnyChars>>)>>,
        command |-> <<"c","p">>],
       [src |-> "move\\s+(.+)",
        re |-> <<Lit(<<"m","o","v","e">>), Spaces, Group(<<AnyChars>>)>>,
        command |-> <<"m","v">>],
       [src |-> "rename\\s+(.+)",
        re |-> <<Lit(<<"r","e","n","a","m","e">>), Spaces, Group(<<AnyChars>>)>>,
        command |-> <<"m","v">>],
       [src |-> "relocate\\s+(.+)",
        re |-> <<Lit(<<"r","e","l","o","c","a","t","e">>), Spaces, Group(<<AnyChars>>)>>,
        command |-> <<"m","v">>],
       [src |-> "find\\s+(?:files?\\s+)?(?:named\\s+)?(.+)",
        re |-> <<Lit(<<"f","i","n","d">>), Spaces, Opt(<<Lit(<<"f","i","l","e">>), Opt(<<Lit(<<"s">>)>>), Spaces>>), Opt(<<Lit(<<"n","a","m","e","d">>), Spaces>>), Group(<<AnyChars>>)>>,
        command |-> <<"f","i","n","d"," ","-","n","a","m","e">>],
       [src |-> "search\\s+for\\s+(.+)",
        re |-> <<Lit(<<"s","e","a","r","c","h">>), Spaces, Lit(<<"f","o","r">>), Spaces, Group(<<AnyChars>>)>>,
        command |-> <<"f","i","n","d"," ","-","n","a","m","e">>],
       [src |-> "look\\s+for\\s+(.+)",
        re |-> <<Lit(<<"l","o","o","k">>), Spaces, Lit(<<"f","o","r">>), Spaces, Group(<<AnyChars>>)>>,
        command |-> <<"f","i","n","d"," ","-","n","a","m","e">>],
       [src |-> "locate\\s+(.+)",
        re |-> <<Lit(<<"l","o","c","a","t","e">>), Spaces, Group(<<AnyChars>>)>>,
        command |-> <<"f","i","n","d"," ","-","n","a","m","e">>],
       [src |-> "how\\s+(?:much\\s+)?(?:cpu|processor)\\s+(?:usage|load)",
        re |-> <<Lit(<<"h","o","w">>), Spaces, Opt(<<Lit(<<"m","u","c","h">>), Spaces>>), Alt(<<<<Lit(<<"c","p","u">>)>>, <<Lit(<<"p","r","o","c","e","s","s","o","r">>)>>>>), Spaces, Alt(<<<<Lit(<<"u","s","a","g","e">>)>>, <<Lit(<<"l","o","a","d">>)>>>>)>>,
        command |-> <<"c","p","u">>],
       [src |-> "cpu\\s+(?:usage|load|performance)",
        re |-> <<Lit(<<"c","p","u">>), Spaces, Alt(<<<<Lit(<<"u","s","a","g","e">>)>>, <<Lit(<<"l","o","a","d">>)>>, <<Lit(<<"p","e","r","f","o","r","m","a","n","c","e">>)>>>>)>>,
        command |-> <<"c","p","u">>],
       [src |-> "processor\\s+(?:usage|load)",
        re |-> <<Lit(<<"p","r","o","c","e","s","s","o","r">>), Spaces, Alt(<<<<Lit(<<"u","s","a","g","e">>)>>, <<Lit(<<"l","o","a","d">>)>>>>)>>,
        command |-> <<"c","p","u">>],
       [src |-> "show\\s+(?:me\\s+)?(?:the\\s+)?cpu",
        re |-> <<Lit(<<"s","h","o","w">>), Spaces, Opt(<<Lit(<<"m","e">>), Spaces>>), Opt(<<Lit(<<"t","h","e">>), Spaces>>), Lit(<<"c","p","u">>)>>,
        command |-> <<"c","p","u">>],
       [src |-> "how\\s+(?:much\\s+)?(?:memory|ram)\\s+(?:usage|used)",
        re |-> <<Lit(<<"h","o","w">>), Spaces, Opt(<<Lit(<<"m","u","c","h">>), Spaces>>), Alt(<<<<Lit(<<"m","e","m","o","r","y">>)>>, <<Lit(<<"r","a","m">>)>>>>), Spaces, Alt(<<<<Lit(<<"u","s","a","g","e">>)>>, <<Lit(<<"u","s","e","d">>)>>>>)>>,
        command |-> <<"m","e","m">>],
       [src |-> "memory\\s+(?:usage|used|consumption)",
        re |-> <<Lit(<<"m","e","m","o","r","y">>), Spaces, Alt(<<<<Lit(<<"u","s","a","g","e">>)>>, <<Lit(<<"u","s","e","d">>)>>, <<Lit(<<"c","o","n","s","u","m","p","t","i","o","n">>)>>>>)>>,
        command |-> <<"m","e","m">>],
       [src |-> "ram\\s+(?:usage|used|consumption)",
        re |-> <<Lit(<<"r","a","m">>), Spaces, Alt(<<<<Lit(<<"u","s","a","g","e">>)>>, <<Lit(<<"u","s","e","d">>)>>, <<Lit(<<"c","o","n","s","u","m","p","t","i","o","n">>)>>>>)>>,
        command |-> <<"m","e","m">>],
       [src |-> "show\\s+(?:me\\s+)?(?:the\\s+)?memory",
        re |-> <<Lit(<<"s","h","o","w">>), Spaces, Opt(<<Lit(<<"m","e">>), Spaces>>), Opt(<<Lit(<<"t","h","e">>), Spaces>>), Lit(<<"m","e","m","o","r","y">>)>>,
        command |-> <<"m","e","m">>],
       [src |-> "show\\s+(?:me\\s+)?(?:running\\s+)?processes?",
        re |-> <<Lit(<<"s","h","o","w">>), Spaces, Opt(<<Lit(<<"m","e">>), Spaces>>), Opt(<<Lit(<<"r","u","n","n","i","n","g">>), Spaces>>), Lit(<<"p","r","o","c","e","s","s","e">>), Opt(<<Lit(<<"s">>)>>)>>,
        command |-> <<"p","s">>],
       [src |-> "list\\s+(?:running\\s+)?processes?",
        re |-> <<Lit(<<"l","i","s","t">>), Spaces, Opt(<<Lit(<<"r","u","n","n","i","n","g">>), Spaces>>), Lit(<<"p","r","o","c","e","s","s","e">>), Opt(<<Lit(<<"s">>)>>)>>,
        command |-> <<"p","s">>],
       [src |-> "what\\s+processes?\\s+are\\s+running",
        re |-> <<Lit(<<"w","h","a","t">>), Spaces, Lit(<<"p","r","o","c","e","s","s","e">>), Opt(<<Lit(<<"s">>)>>), Spaces, Lit(<<"a","r","e">>), Spaces, Lit(<<"r","u","n","n","i","n","g">>)>>,
        command |-> <<"p","s">>],
       [src |-> "running\\s+programs?",
        re |-> <<Lit(<<"r","u","n","n","i","n","g">>), Spaces, Lit(<<"p","r","o","g","r","a","m">>), Opt(<<Lit(<<"s">>)>>)>>,
        command |-> <<"p","s">>],
       [src |-> "active\\s+processes?",
        re |-> <<Lit(<<"a","c","t","i","v","e">>), Spaces, Lit(<<"p","r","o","c","e","s","s","e">>), Opt(<<Lit(<<"s">>)>>)>>,
        command |-> <<"p","s">>],
       [src |-> "disk\\s+(?:usage|space|free)",
        re |-> <<Lit(<<"d","i","s","k">>), Spaces, Alt(<<<<Lit(<<"u","s","a","g","e">>)>>, <<Lit(<<"s","p","a","c","e">>)>>, <<Lit(<<"f","r","e","e">>)>>>>)>>,
        command |-> <<"d","i","s","k">>],
       [src |-> "how\\s+much\\s+disk\\s+space",
        re |-> <<Lit(<<"h","o","w">>), Spaces, Lit(<<"m","u","c","h">>), Spaces, Lit(<<"d","i","s","k">>), Spaces, Lit(<<"s","p","a","c","e">>)>>,
        command |-> <<"d","i","s","k">>],
       [src |-> "storage\\s+(?:usage|space)",
        re |-> <<Lit(<<"s","t","o","r","a","g","e">>), Spaces, Alt(<<<<Lit(<<"u","s","a","g","e">>)>>, <<Lit(<<"s","p","a","c","e">>)>>>>)>>,
        command |-> <<"d","i","s","k">>],
       [src |-> "show\\s+(?:me\\s+)?(?:the\\s+)?disk",
        re |-> <<Lit(<<"s","h","o","w">>), Spaces, Opt(<<Lit(<<"m","e">>), Spaces>>), Opt(<<Lit(<<"t","h","e">>), Spaces>>), Lit(<<"d","i","s","k">>)>>,
        command |-> <<"d","i","s","k">>],
       [src |-> "uptime",
        re |-> <<Lit(<<"u","p","t","i","m","e">>)>>,
        command |-> <<"u","p","t","i","m","e">>],
       [src |-> "how\\s+long\\s+has\\s+(?:the\\s+)?system\\s+been\\s+running",
        re |-> <<Lit(<<"h","o","w">>), Spaces, Lit(<<"l","o","n","g">>), Spaces, Lit(<<"h","a","s">>), Spaces, Opt(<<Lit(<<"t","h","e">>), Spaces>>), Lit(<<"s","y","s","t","e","m">>), Spaces, Lit(<<"b","e","e","n">>), Spaces, Lit(<<"r","u","n","n","i","n","g">>)>>,
        command |-> <<"u","p","t","i","m","e">>],
       [src |-> "system\\s+uptime",
        re |-> <<Lit(<<"s","y","s","t","e","m">>), Spaces, Lit(<<"u","p","t","i","m","e">>)>>,
        command |-> <<"u","p","t","i","m","e">>],
       [src |-> "network\\s+(?:info|status|statistics)",
        re |-> <<Lit(<<"n","e","t","w","o","r","k">>), Spaces, Alt(<<<<Lit(<<"i","n","f","o">>)>>, <<Lit(<<"s","t","a","t","u","s">>)>>, <<Lit(<<"s","t","a","t","i","s","t","i","c","s">>)>>>>)>>,
        command |-> <<"n","e","t">>],
       [src |-> "show\\s+(?:me\\s+)?(?:the\\s+)?network",
        re |-> <<Lit(<<"s","h","o","w">>), Spaces, Opt(<<Lit(<<"m","e">>), Spaces>>), Opt(<<Lit(<<"t","h","e">>), Spaces>>), Lit(<<"n","e","t","w","o","r","k">>)>>,
        command |-> <<"n","e","t">>],
       [src |-> "internet\\s+(?:info|status)",
        re |-> <<Lit(<<"i","n","t","e","r","n","e","t">>), Spaces, Alt(<<<<Lit(<<"i","n","f","o">>)>>, <<Lit(<<"s","t","a","t","u","s">>)>>>>)>>,
        command |-> <<"n","e","t">>],
       [src |-> "help\\s+me",
        re |-> <<Lit(<<"h","e","l","p">>), Spaces, Lit(<<"m","e">>)>>,
        command |-> <<"h","e","l","p">>],
       [src |-> "what\\s+can\\s+i\\s+do",
        re |-> <<Lit(<<"w","h","a","t">>), Spaces, Lit(<<"c","a","n">>), Spaces, Lit(<<"i">>), Spaces, Lit(<<"d","o">>)>>,
        command |-> <<"h","e","l","p">>],
       [src |-> "show\\s+(?:me\\s+)?(?:the\\s+)?help",
        re |-> <<Lit(<<"s","h","o","w">>), Spaces, Opt(<<Lit(<<"m","e">>), Spaces>>), Opt(<<Lit(<<"t","h","e">>), Spaces>>), Lit(<<"h","e","l","p">>)>>,
        command |-> <<"h","e","l","p">>],
       [src |-> "commands?",
        re |-> <<Lit(<<"c","o","m","m","a","n","d">>), Opt(<<Lit(<<"s">>)>>)>>,
        command |-> <<"h","e","l","p">>],
       [src |-> "available\\s+commands?",
        re |-> <<Lit(<<"a","v","a","i","l","a","b","l","e">>), Spaces, Lit(<<"c","o","m","m","a","n","d">>), Opt(<<Lit(<<"s">>)>>)>>,
        command |-> <<"h","e","l","p">>],
       [src |-> "clear\\s+(?:the\\s+)?screen",
        re |-> <<Lit(<<"c","l","e","a","r">>), Spaces, Opt(<<Lit(<<"t","h","e">>), Spaces>>), Lit(<<"s","c","r","e","e","n">>)>>,
        command |-> <<"c","l","e","a","r">>],
       [src |-> "clean\\s+(?:the\\s+)?screen",
        re |-> <<Lit(<<"c","l","e","a","n">>), Spaces, Opt(<<Lit(<<"t","h","e">>), Spaces>>), Lit(<<"s","c","r","e","e","n">>)>>,
        command |-> <<"c","l","e","a","r">>],
       [src |-> "wipe\\s+(?:the\\s+)?screen",
        re |-> <<Lit(<<"w","i","p","e">>), Spaces, Opt(<<Lit(<<"t","h","e">>), Spaces>>), Lit(<<"s","c","r","e","e","n">>)>>,
        command |-> <<"c","l","e","a","r">>],
       [src |-> "exit\\s+(?:the\\s+)?program",
        re |-> <<Lit(<<"e","x","i","t">>), Spaces, Opt(<<Lit(<<"t","h","e">>), Spaces>>), Lit(<<"p","r","o","g","r","a","m">>)>>,
        command |-> <<"e","x","i","t">>],
       [src |-> "quit\\s+(?:the\\s+)?program",
        re |-> <<Lit(<<"q","u","i","t">>), Spaces, Opt(<<Lit(<<"t","h","e">>), Spaces>>), Lit(<<"p","r","o","g","r","a","m">>)>>,
        command |-> <<"e","x","i","t">>],
       [src |-> "close\\s+(?:the\\s+)?terminal",
        re |-> <<Lit(<<"c","l","o","s","e">>), Spaces, Opt(<<Lit(<<"t","h","e">>), Spaces>>), Lit(<<"t","e","r","m","i","n","a","l">>)>>,
        command |-> <<"e","x","i","t">>],
       [src |-> "bye",
        re |-> <<Lit(<<"b","y","e">>)>>,
        command |-> <<"e","x","i","t">>],
       [src |-> "goodbye",
        re |-> <<Lit(<<"g","o","o","d","b","y","e">>)>>,
        command |-> <<"e","x","i","t">>]
    >>

\* keyword_map of _keyword_parse
keyword_map ==
    <<
       [word |-> <<"c","r","e","a","t","e">>, command |-> <<"m","k","d","i","r">>],
       [word |-> <<"m","a","k","e">>, command |-> <<"m","k","d","i","r">>],
       [word |-> <<"n","e","w">>, command |-> <<"m","k","d","i","r">>],
       [word |-> <<"r","e","m","o","v","e">>, command |-> <<"r","m">>],
       [word |-> <<"d","e","l","e","t","e">>, command |-> <<"r","m">>],
       [word |-> <<"e","r","a","s","e">>, command |-> <<"r","m">>],
       [word |-> <<"g","o">>, command |-> <<"c","d">>],
       [word |-> <<"n","a","v","i","g","a","t","e">>, command |-> <<"c","d">>],
       [word |-> <<"e","n","t","e","r">>, command |-> <<"c","d">>],
       [word |-> <<"o","p","e","n">>, command |-> <<"c","d">>],
       [word |-> <<"w","h","e","r","e">>, command |-> <<"p","w","d">>],
       [word |-> <<"c","u","r","r","e","n","t">>, command |-> <<"p","w","d">>],
       [word |-> <<"s","h","o","w">>, command |-> <<"l","s">>],
       [word |-> <<"l","i","s","t">>, command |-> <<"l","s">>],
       [word |-> <<"d","i","s","p","l","a","y">>, command |-> <<"l","s">>],
       [word |-> <<"s","e","e">>, command |-> <<"l","s">>],
       [word |-> <<"f","i","l","e","s">>, command |-> <<"l","s">>],
       [word |-> <<"r","e","a","d">>, command |-> <<"c","a","t">>],
       [word |-> <<"v","i","e","w">>, command |-> <<"c","a","t">>],
       [word |-> <<"c","o","n","t","e","n","t","s">>, command |-> <<"c","a","t">>],
       [word |-> <<"c","p","u">>, command |-> <<"c","p","u">>],
       [word |-> <<"m","e","m","o","r","y">>, command |-> <<"m","e","m">>],
       [word |-> <<"r","a","m">>, command |-> <<"m","e","m">>],
       [word |-> <<"p","r","o","c","e","s","s","e","s">>, command |-> <<"p","s">>],
       [word |-> <<"d","i","s","k">>, command |-> <<"d","i","s","k">>],
       [word |-> <<"u","p","t","i","m","e">>, command |-> <<"u","p","t","i","m","e">>],
       [word |-> <<"n","e","t","w","o","r","k">>, command |-> <<"n","e","t">>],
       [word |-> <<"h","e","l","p">>, command |-> <<"h","e","l","p">>],
       [word |-> <<"c","l","e","a","r">>, command |-> <<"c","l","e","a","r">>],
       [word |-> <<"e","x","i","t">>, command |-> <<"e","x","i","t">>],
       [word |-> <<"q","u","i","t">>, command |-> <<"e","x","i","t">>]
    >>

\* dict.update with a dict of distinct keys: the value of a key the dict has
\* is replaced where it stands, the new keys are added at the end in order
DictUpdate(d, e) ==
    LET Has(dict, key) == \E j \in 1..Len(dict) : dict[j].src = key
        At(dict, key) == dict[CHOOSE j \in 1..Len(dict) : dict[j].src = key]
    IN  [k \in 1..Len(d) |-> IF Has(e, d[k].src) THEN At(e, d[k].src) ELSE d[k]]
        \o SelectSeq(e, LAMBDA x : ~Has(d, x.src))

\* the two tables joined the other way round
patterns_extended_first == DictUpdate(extended_patterns, NL_PATTERNS)

\* self.patterns after NaturalLanguageParser.__init__
patterns == DictUpdate(NL_PATTERNS, extended_patterns)

\* the scan that keeps the last keyword it meets
keyword_parse_last(text) ==
    LET IsKeyword(w) == \E k \in 1..Len(keyword_map) : keyword_map[k].word = w IN
    Only({
    IF \A i \in 1..Len(words) : ~IsKeyword(words[i])
    THEN [command |-> <<>>, args |-> <<>>]
    ELSE Only({
         [command |-> keyword_map[CHOOSE k \in 1..Len(keyword_map) :
                                    keyword_map[k].word = words[i]].command,
          args |-> SubSeq(words, i + 1, Len(words))]
         : i \in {CHOOSE a \in 1..Len(words) :
                    /\ IsKeyword(words[a])
                    /\ \A b \in (a + 1)..Len(words) : ~IsKeyword(words[b])} })
    : words \in {SplitWhitespace(text)} })

_keyword_parse(text) ==
    LET IsKeyword(w) == \E k \in 1..Len(keyword_map) : keyword_map[k].word = w IN
    Only({
    IF \A i \in 1..Len(words) : ~IsKeyword(words[i])
    THEN [command |-> <<>>, args |-> <<>>]
    ELSE Only({
         [command |-> keyword_map[CHOOSE k \in 1..Len(keyword_map) :
                                    keyword_map[k].word = words[i]].command,
          args |-> SubSeq(words, i + 1, Len(words))]
         : i \in {CHOOSE a \in 1..Len(words) :
                    /\ IsKeyword(words[a])
                    /\ \A b \in 1..(a - 1) : ~IsKeyword(words[b])} })
    : words \in {SplitWhitespace(text)} })

\* parse with a given table of patterns
parse_with(table, input_text) ==
    IF Strip(input_text) = <<>> THEN [command |-> <<>>, args |-> <<>>]
    ELSE Only({
         IF \A k \in 1..Len(table) : ~found[k].matched THEN _keyword_parse(text)
         ELSE Only({
              [command |-> table[k].command,
               args |-> IF found[k].groups.set
                        THEN SplitWhitespace(Strip(found[k].groups.text))
                        ELSE <<>>]
              : k \in {CHOOSE a \in 1..Len(table) :
                         /\ found[a].matched
                         /\ \A b \in 1..(a - 1) : ~found[b].matched} })
         : text \in {StrLower(Strip(input_text))},
           found \in {AsTuple([k \in 1..Len(table) |->
                                 re_search(table[k].re, StrLower(Strip(input_text)))])} })

\* NaturalLanguageParser.parse
parse(input_text) == parse_with(patterns, input_text)

\* a new parser each time, and its parse
process_natural_language(input_text) == parse(input_text)

-----------------------------------------------------------------------------
(* app/cli.py: CommandHistory *)

MAX_HISTORY_SIZE == 1000

S_newline == <<"\n">>

\* s[start:] of a Python list, for a start of either sign
SliceFrom(s, start) ==
    LET n == Len(s)
        k == IF start < 0 THEN (IF n + start < 0 THEN 0 ELSE n + start)
             ELSE (IF start > n THEN n ELSE start)
    IN  SubSeq(s, k + 1, n)

\* [line.strip() for line in f.readlines() if line.strip()]
StrippedLines(content) ==
    LET pieces == SplitOn(content, {"\n"})
        kept == SelectSeq(pieces, LAMBDA line : Strip(line) # <<>>)
    IN  [i \in 1..Len(kept) |-> Strip(kept[i])]

\* what the loop of _save_history writes: every command and a newline
RECURSIVE WrittenLines(_)
WrittenLines(h) ==
    IF h = <<>> THEN <<>> ELSE Head(h) \o S_newline \o WrittenLines(Tail(h))

\* the history file: whether it exists, its text, whether its directory
\* exists or can be created, whether the file can be opened
NoFile(dir_ok, file_ok) ==
    [exists |-> FALSE, content |-> <<>>, dir_ok |-> dir_ok, file_ok |-> file_ok]

_load_history(size, file) ==
    IF ~file.exists THEN <<>>
    ELSE IF ~file.file_ok THEN <<>>
    ELSE SliceFrom(StrippedLines(file.content), 0 - size)

\* the file after _save_history, and the exception that leaves it
_save_history(h, file) ==
    IF ~file.dir_ok THEN [file |-> file, raised |-> "PathError"]
    ELSE IF ~file.file_ok THEN [file |-> file, raised |-> ""]
    ELSE [file |-> [file EXCEPT !.exists = TRUE, !.content = WrittenLines(h)],
          raised |-> ""]

\* the test of add with the comparison to the last entry left out
add_accepts_any(h, command) == Strip(command) # <<>>

\* the test of add, cli.py line 97
add_accepts(h, command) ==
    Strip(command) # <<>> /\ (h = <<>> \/ h[Len(h)] # command)

add(h, size, file, command) ==
    IF ~add_accepts(h, command)
    THEN [history |-> h, file |-> file, raised |-> "", accepted |-> FALSE]
    ELSE LET h1 == Append(h, command)
             h2 == IF Len(h1) > size THEN Tail(h1) ELSE h1
             s == _save_history(h2, file)
         IN  [history |-> h2, file |-> s.file, raised |-> s.raised, accepted |-> TRUE]

None == [none |-> TRUE]

\* get_previous that steps back without looking at the cursor: below the
\* first entry Python counts the index from the end of the list
get_previous_unguarded(h, index) ==
    IF h = <<>> THEN [index |-> index, ret |-> None, raised |-> ""]
    ELSE LET i == index - 1 IN
         IF i + 1 \in 1..Len(h) THEN [index |-> i, ret |-> h[i + 1], raised |-> ""]
         ELSE IF Len(h) + i + 1 \in 1..Len(h)
         THEN [index |-> i, ret |-> h[Len(h) + i + 1], raised |-> ""]
         ELSE [index |-> i, ret |-> None, raised |-> "IndexError"]

get_previous(h, index) ==
    IF h = <<>> THEN [index |-> index, ret |-> None, raised |-> ""]
    ELSE LET i == IF index > 0 THEN index - 1 ELSE index IN
         IF i + 1 \in 1..Len(h) THEN [index |-> i, ret |-> h[i + 1], raised |-> ""]
         ELSE [index |-> i, ret |-> None, raised |-> "IndexError"]

get_next(h, index) ==
    IF h = <<>> THEN [index |-> index, ret |-> None, raised |-> ""]
    ELSE IF index < Len(h) - 1
    THEN [index |-> index + 1, ret |-> h[index + 2], raised |-> ""]
    ELSE [index |-> Len(h), ret |-> <<>>, raised |-> ""]

reset_index(h) == Len(h)

list_history(h, limit) == IF h # <<>> THEN SliceFrom(h, 0 - limit) ELSE <<>>

-----------------------------------------------------------------------------
(* app/cli.py: CommandRegistry *)

\* the dict after d[key] = value
DictSet(d, key, value) ==
    [k \in (DOMAIN d) \cup {key} |-> IF k = key THEN value ELSE d[k]]

\* d.get(key)
DictGet(d, key) == IF key \in DOMAIN d THEN d[key] ELSE None

EmptyDict == [k \in {} |-> None]

\* the insertion order of the keys of a dict
KeysAfterSet(keys, key) ==
    IF \E i \in 1..Len(keys) : keys[i] = key THEN keys ELSE Append(keys, key)

NewRegistry ==
    [commands |-> EmptyDict, order |-> <<>>, command_help |-> EmptyDict,
     command_categories |-> EmptyDict]

\* register that keeps the handler a name already has
register_keep_first(reg, name, func, help_text, category) ==
    [commands |-> IF name \in DOMAIN reg.commands THEN reg.commands
                  ELSE DictSet(reg.commands, name, func),
     order |-> KeysAfterSet(reg.order, name),
     command_help |-> DictSet(reg.command_help, name, help_text),
     command_categories |->
         DictSet(reg.command_categories, category,
                 Append(IF category \in DOMAIN reg.command_categories
                        THEN reg.command_categories[category] ELSE <<>>, name))]

register(reg, name, func, help_text, category) ==
    [commands |-> DictSet(reg.commands, name, func),
     order |-> KeysAfterSet(reg.order, name),
     command_help |-> DictSet(reg.command_help, name, help_text),
     command_categories |->
         DictSet(reg.command_categories, category,
                 Append(IF category \in DOMAIN reg.command_categories
                        THEN reg.command_categories[category] ELSE <<>>, name))]

get_command(reg, name) == DictGet(reg.commands, name)

list_commands(reg, category) ==
    IF category # <<>>
    THEN (IF category \in DOMAIN reg.command_categories
          THEN reg.command_categories[category] ELSE <<>>)
    ELSE reg.order

S_no_help == <<"N","o"," ","h","e","l","p"," ","a","v","a","i","l","a","b","l","e">>

get_help(reg, command) ==
    IF command \in DOMAIN reg.command_help THEN reg.command_help[command]
    ELSE S_no_help

-----------------------------------------------------------------------------
(* Callers of safe_join: the bases and path segments tried *)

HostNames == {"posix", "nt"}

\* the working directories the process is started in or has changed to
\* (cd is not jailed)
WorkDirs(os) ==
    IF os = "nt"
    THEN {PurePath(os, <<"c",":","\\","a","p","p">>),
          PurePath(os, <<"c",":","\\","t","m","p">>),
          PurePath(os, <<"c",":","\\","e","t","c">>)}
    ELSE {PurePath(os, <<"/","a","p","p">>),
          PurePath(os, <<"/","a","p","p","/","d">>),
          PurePath(os, <<"/","t","m","p">>),
          PurePath(os, <<"/","e","t","c">>)}

BasePaths(os) ==
    IF os = "nt"
    THEN {<<".">>,
          <<"c",":","\\","a","p","p">>,
          <<"c",":","\\","s","a","f","e">>,
          <<"c",":","\\","t","m","p">>}
    ELSE {<<".">>,
          <<"/","a","p","p">>,
          <<"/","a","p","p","/","d">>,
          <<"/","s","a","f","e","/","b","a","s","e">>,
          <<"/","t","m","p">>,
          <<"/","h","o","m","e","/","a","t","t","e","m","p","t">>}

Segments(os) ==
    {<<>>, <<"a">>, <<".">>, <<"o","u","t">>, <<"s","u","b","/","f">>,
     <<".",".">>, <<".",".","/","e","t","c">>, <<"a",".",".","b">>,
     <<"a","/",".",".","/","b">>}
    \cup
    (IF os = "nt"
     THEN {<<"c",":","\\","a","p","p","\\","d">>,
           <<"c",":","\\","t","m","p","\\","x">>,
           <<"c",":","\\","e","t","c">>,
           <<"\\","\\","s","r","v","\\","t","m","p","\\","x">>,
           <<"\\","e","t","c">>}
     ELSE {<<"/","e","t","c">>, <<"/","a","p","p","/","d">>,
           <<"/","t","m","p","/","x">>, <<"/","/","e","t","c">>})

SegLists(os) == UNION {[1..n -> Segments(os)] : n \in 0..MaxSegs}

-----------------------------------------------------------------------------
(* Specification of the path jail *)

\* the directories and files of the host when the program starts
InitialDirs(os) ==
    IF os = "nt"
    THEN {PurePath(os, <<"c",":","\\">>),
          PurePath(os, <<"c",":","\\","a","p","p">>),
          PurePath(os, <<"c",":","\\","a","p","p","\\","d">>),
          PurePath(os, <<"c",":","\\","t","m","p">>),
          PurePath(os, <<"c",":","\\","e","t","c">>)}
    ELSE {PurePath(os, <<"/">>),
          PurePath(os, <<"/","a","p","p">>),
          PurePath(os, <<"/","a","p","p","/","d">>),
          PurePath(os, <<"/","t","m","p">>),
          PurePath(os, <<"/","e","t","c">>)}

InitialFiles(os) ==
    IF os = "nt"
    THEN {PurePath(os, <<"c",":","\\","a","p","p","\\","f">>),
          PurePath(os, <<"c",":","\\","a","p","p","\\","d","\\","g">>),
          PurePath(os, <<"c",":","\\","t","m","p","\\","f">>)}
    ELSE {PurePath(os, <<"/","a","p","p","/","f">>),
          PurePath(os, <<"/","a","p","p","/","d","/","g">>),
          PurePath(os, <<"/","t","m","p","/","f">>)}

\* the host when the program runs: the working directory is one of the
\* initial directories, or on a POSIX host a directory that has since been
\* removed together with what it held
EnvInit ==
    /\ os_name \in HostNames
    /\ cwd \in WorkDirs(os_name)
    /\ fs_dirs \in {InitialDirs(os_name)} \cup
                   (IF os_name = "nt" THEN {}   \* Windows keeps a working directory
                    ELSE {{d \in InitialDirs(os_name) : ~IsRelativeTo(d, cwd)}})
    /\ fs_files = {f \in InitialFiles(os_name) :
                      [f EXCEPT !.parts = SubSeq(@, 1, Len(@) - 1)] \in fs_dirs}

FsIdle ==
    /\ fs_called = FALSE
    /\ fs_call = [cmd |-> "", args |-> <<>>]
    /\ fs_ret = [st |-> Begin({}, {}, <<>>), dirs0 |-> {}, files0 |-> {}]

JailIdle ==
    /\ jail_called = FALSE
    /\ jail_args = [base_path |-> <<>>, paths |-> <<>>]
    /\ jail_res = Return(NoPath)

NoCall == [op |-> "", arg |-> <<>>, before |-> <<>>, ret |-> None, raised |-> ""]

HistIdle ==
    /\ history = <<>>
    /\ max_size = MAX_HISTORY_SIZE
    /\ current_index = 0
    /\ history_file = NoFile(TRUE, TRUE)
    /\ hist_loaded = <<>>
    /\ hist_added = <<>>
    /\ hist_accepted = <<>>
    /\ hist_ret = NoCall

RegIdle ==
    /\ registry = NewRegistry
    /\ reg_log = <<>>
    /\ reg_ret = NoCall

\* no iteration of the loop of run yet
NoIteration ==
    [event |-> "", line |-> <<>>, user_input |-> <<>>, added |-> FALSE,
     accepted |-> FALSE, reset |-> FALSE, command |-> <<>>, args |-> <<>>,
     executed |-> FALSE, calls |-> <<>>, resolver |-> <<>>, output |-> <<>>,
     raised |-> ""]

\* a PyTermCLI constructed in the working directory and not yet run
CliIdle ==
    /\ current_dir = cwd
    /\ running = TRUE
    /\ cli_state = "AwaitingInput"
    /\ clear_ok = TRUE
    /\ steps = 0
    /\ last = NoIteration

\* no call on the parser
NlIdle ==
    /\ nl_text = <<>>
    /\ nl_ret = NoCall

\* a POSIX host with its working directory at the root of the application
EnvIdle ==
    /\ os_name = "posix"
    /\ cwd = ROOT_DIR("posix")
    /\ fs_dirs = InitialDirs("posix")
    /\ fs_files = InitialFiles("posix")

\* the caller has chosen its arguments
JailInit ==
    /\ EnvInit
    /\ FsIdle
    /\ HistIdle
    /\ RegIdle
    /\ CliIdle
    /\ NlIdle
    /\ jail_called = FALSE
    /\ jail_args \in [base_path : BasePaths(os_name), paths : SegLists(os_name)]
    /\ jail_res = Return(NoPath)

\* one call safe_join(base_path, *paths)
SafeJoinCall ==
    /\ ~jail_called
    /\ jail_called' = TRUE
    /\ jail_res' = safe_join(os_name, cwd, cwd \in fs_dirs,
                             jail_args.base_path, jail_args.paths)
    /\ UNCHANGED <<env_vars, jail_args, fs_vars, hist_vars, reg_vars, cli_vars, nl_vars>>

JailNext == SafeJoinCall

all_vars == <<env_vars, jail_vars, fs_vars, hist_vars, reg_vars, cli_vars, nl_vars>>

SpecJail == JailInit /\ [][JailNext]_all_vars

-----------------------------------------------------------------------------
(* Claims about the path jail, checked under SpecJail *)

\* the jail root as path_in_jail sees it
JailRoot == Resolve(os_name, cwd, ROOT_DIR(os_name))

\* some segment of the call contains ".."
HasDotDotSegment(paths) == \E i \in 1..Len(paths) : Contains(paths[i], S_dotdot)

\* some segment of the call is an absolute path on the host
HasAbsoluteSegment(os, paths) ==
    \E i \in 1..Len(paths) : IsAbsolute(os, PurePath(os, paths[i]))

\* every segment is relative: no drive, no root
AllRelativeSegments(os, paths) ==
    \A i \in 1..Len(paths) :
        PurePath(os, paths[i]).drv = <<>> /\ PurePath(os, paths[i]).root = <<>>

\* base / paths[1] / ... / paths[n]
RECURSIVE JoinAll(_, _, _)
JoinAll(os, base, paths) ==
    IF paths = <<>> THEN base
    ELSE JoinAll(os, Join(os, base, PurePath(os, Head(paths))), Tail(paths))

\* C1: every path safe_join returns is a descendant of the configured jail
\* root, whatever the names in the path.
C1_ReturnedPathUnderRoot ==
    (jail_called /\ jail_res.kind = "ok") => IsRelativeTo(jail_res.path, JailRoot)

\* C2: a call in which some segment contains ".." never returns a path: it
\* raises SecurityError.
C2_DotDotRaisesSecurityError ==
    (jail_called /\ HasDotDotSegment(jail_args.paths))
        => jail_res.kind = "SecurityError"

\* C3: containment is judged against the root passed as base_path: relative
\* segments without ".." whose joined path lies inside that root make
\* safe_join return a path that has that root among its ancestors.
C3_ContainmentAgainstGivenRoot ==
    LET base   == Resolve(os_name, cwd, PurePath(os_name, jail_args.base_path))
        joined == Resolve(os_name, cwd, JoinAll(os_name, base, jail_args.paths))
    IN  ( /\ jail_called
          /\ IsAbsolute(os_name, PurePath(os_name, jail_args.base_path))
          /\ ~HasDotDotSegment(jail_args.paths)
          /\ AllRelativeSegments(os_name, jail_args.paths)
          /\ PartsLen(joined) <= MAX_PATH_DEPTH
          /\ IsRelativeTo(joined, base) )
        => (jail_res.kind = "ok" /\ IsRelativeTo(jail_res.path, base))

\* C4: a call in which some segment is an absolute path on the host raises
\* SecurityError, on a POSIX host and on a Windows host.
C4_AbsoluteSegmentRaisesSecurityError ==
    (jail_called /\ HasAbsoluteSegment(os_name, jail_args.paths))
        => jail_res.kind = "SecurityError"

-----------------------------------------------------------------------------
(* Specification of the filesystem handlers: one invocation of a handler   *)
(* with an argument list, on a host as EnvInit describes it                *)

Handlers == {"mkdir", "rm", "touch", "cp", "mv"}

HandlerArgs(os) ==
    {S_dash_r, S_dash_p, <<"d">>, <<"f">>, <<"n">>, <<".">>, <<".", ".">>,
     <<"d", "/", "g">>, <<"o", "u", "t">>}
    \cup (IF os = "nt" THEN {<<"c",":","\\","t","m","p","\\","f">>}
          ELSE {<<"/","t","m","p","/","f">>})

ArgLists(os) == UNION {[1..n -> HandlerArgs(os)] : n \in 0..MaxArgs}

FsInit ==
    /\ EnvInit
    /\ HistIdle
    /\ RegIdle
    /\ JailIdle
    /\ CliIdle
    /\ NlIdle
    /\ fs_called = FALSE
    /\ fs_call \in [cmd : Handlers, args : ArgLists(os_name)]
    /\ fs_ret = [st |-> Begin({}, {}, <<>>), dirs0 |-> {}, files0 |-> {}]

\* the handler has run to its return: the filesystem is as it left it
Invoke(name, st) ==
    /\ ~fs_called
    /\ fs_call.cmd = name
    /\ fs_called' = TRUE
    /\ fs_ret' = [st |-> st, dirs0 |-> fs_dirs, files0 |-> fs_files]
    /\ fs_dirs' = st.dirs
    /\ fs_files' = st.files
    /\ UNCHANGED <<os_name, cwd, fs_call, jail_vars, hist_vars, reg_vars, cli_vars, nl_vars>>

CmdMkdir ==
    /\ fs_call.cmd = "mkdir"
    /\ \E st \in {cmd_mkdir(os_name, cwd, fs_dirs, fs_files, fs_call.args)} :
          Invoke("mkdir", st)
CmdRm ==
    /\ fs_call.cmd = "rm"
    /\ \E st \in {cmd_rm(os_name, cwd, fs_dirs, fs_files, fs_call.args)} :
          Invoke("rm", st)
CmdTouch ==
    /\ fs_call.cmd = "touch"
    /\ \E st \in {cmd_touch(os_name, cwd, fs_dirs, fs_files, fs_call.args)} :
          Invoke("touch", st)
CmdCp ==
    /\ fs_call.cmd = "cp"
    /\ \E st \in {cmd_cp(os_name, cwd, fs_dirs, fs_files, fs_call.args)} :
          Invoke("cp", st)
CmdMv ==
    /\ fs_call.cmd = "mv"
    /\ \E st \in {cmd_mv(os_name, cwd, fs_dirs, fs_files, fs_call.args)} :
          Invoke("mv", st)

FsNext == CmdMkdir \/ CmdRm \/ CmdTouch \/ CmdCp \/ CmdMv

SpecFs == FsInit /\ [][FsNext]_all_vars

-----------------------------------------------------------------------------
(* Claims about the filesystem handlers, checked under SpecFs *)

\* the paths whose existence the invocation changed
ChangedPaths ==
    ((fs_dirs \cup fs_files) \ (fs_ret.dirs0 \cup fs_ret.files0))
    \cup ((fs_ret.dirs0 \cup fs_ret.files0) \ (fs_dirs \cup fs_files))

\* the paths safe_join(".", x) returns for the operands x of the invocation
OperandPaths ==
    {safe_join(os_name, cwd, TRUE, S_dot, <<fs_ret.st.operands[k]>>).path :
        k \in {j \in 1..Len(fs_ret.st.operands) :
                 safe_join(os_name, cwd, TRUE, S_dot,
                           <<fs_ret.st.operands[j]>>).kind = "ok"}}

\* C5: in an invocation of mkdir, rm, touch, cp or mv, the path operand of
\* every call that creates, deletes, copies to or moves is a path safe_join
\* returned for an operand of that invocation, no call is made for an operand
\* for which safe_join raised, and every path that appeared or disappeared
\* is such a returned path or lies beneath one.
C5_MutationsOnlyOnJailedPaths ==
    fs_called =>
        /\ \A k \in 1..Len(fs_ret.st.ops) :
              /\ fs_ret.st.ops[k].arg \notin fs_ret.st.raised
              /\ fs_ret.st.ops[k].path \in OperandPaths
              /\ fs_ret.st.ops[k].path \in fs_ret.st.jailed
        /\ \A p \in ChangedPaths : \E q \in OperandPaths : IsRelativeTo(p, q)

\* rm has removed one operand and has been refused another by safe_join
C5_Witness ==
    /\ fs_called
    /\ fs_call.cmd = "rm"
    /\ fs_ret.st.raised # {}
    /\ fs_ret.st.ops # <<>>
    /\ ChangedPaths # {}

\* safe_join(".", x) for the k-th operand x of the invocation, on the host as
\* the invocation found it
OperandTarget(k) ==
    safe_join(os_name, cwd, cwd \in fs_ret.dirs0, S_dot, <<fs_ret.st.operands[k]>>)

\* the operands of the invocation that named a directory of the host
DirectoryOperands ==
    {k \in 1..Len(fs_ret.st.operands) :
        /\ OperandTarget(k).kind = "ok"
        /\ OperandTarget(k).path \in fs_ret.dirs0}

\* the paths of the host at or beneath p
Beneath(paths, p) == {q \in paths : IsRelativeTo(q, p)}

\* C23: in an invocation of rm without -r, every target that is a directory
\* gets the 'use -r for recursive removal' line, no call on the filesystem is
\* made for it, the directory and the directories beneath it are still there
\* and a file beneath it is gone only when another target named that file;
\* every target gets its line of output, and the other targets that named
\* files have had them removed.
C23_RmRefusesDirectoryWithoutR ==
    (fs_called /\ fs_call.cmd = "rm" /\ ~HasArg(fs_call.args, S_dash_r)) =>
        \A k \in DirectoryOperands :
            LET st == fs_ret.st
                p == OperandTarget(k).path
            IN  /\ Len(st.results) = Len(st.operands)
                /\ st.results[k] = [msg |-> "use -r for recursive removal",
                                    text |-> st.operands[k]]
                /\ \A n \in 1..Len(st.ops) : st.ops[n].arg # k
                /\ Beneath(fs_ret.dirs0, p) = Beneath(fs_dirs, p)
                /\ Beneath(fs_files, p) \subseteq Beneath(fs_ret.files0, p)
                /\ \A f \in Beneath(fs_ret.files0, p) \ fs_files :
                       \E n \in 1..Len(st.ops) :
                           /\ st.ops[n].call = "unlink"
                           /\ st.ops[n].path = f
                /\ \A j \in 1..Len(st.operands) :
                       (OperandTarget(j).kind = "ok"
                        /\ OperandTarget(j).path \in fs_ret.files0) =>
                           /\ OperandTarget(j).path \notin fs_files
                           /\ st.results[j].msg \in {"file_deleted", "file_not_found"}

\* rm d f in the root of the application: d was refused and is as it was,
\* and f, named after it, has been removed
C23_Witness ==
    /\ fs_called
    /\ fs_call.cmd = "rm"
    /\ fs_call.args = <<<<"d">>, <<"f">>>>
    /\ 1 \in DirectoryOperands
    /\ Beneath(fs_ret.files0, OperandTarget(1).path) # {}
    /\ Beneath(fs_files, OperandTarget(1).path) = Beneath(fs_ret.files0, OperandTarget(1).path)
    /\ fs_ret.st.results[1].msg = "use -r for recursive removal"
    /\ fs_ret.st.results[2].msg = "file_deleted"
    /\ OperandTarget(2).path \in fs_ret.files0 \ fs_files

\* safe_join(".", a) for an argument a of the invocation, on the host as the
\* invocation found it
ArgTarget(a) == safe_join(os_name, cwd, cwd \in fs_ret.dirs0, S_dot, <<a>>)

\* cp source destination, with -r in front of them or without: both inside
\* the jail, the source there and the destination not yet, in a directory
\* that is there
CopyRequest(source, destination) ==
    /\ ~StartsWith(source, S_dash)
    /\ ~StartsWith(destination, S_dash)
    /\ ArgTarget(source).kind = "ok"
    /\ ArgTarget(destination).kind = "ok"
    /\ ArgTarget(destination).path \notin fs_ret.dirs0 \cup fs_ret.files0
    /\ Parent(ArgTarget(destination).path) \in fs_ret.dirs0

\* C24: cp with an existing source file and a destination, and no flags,
\* copies the file to the destination, its last argument, and returns the
\* 'Copied' line; cp -r with a source directory copies the directory and
\* what it holds to the destination.
C24_CpCopiesToLastArgument ==
    (fs_called /\ fs_call.cmd = "cp") =>
        LET args == fs_call.args IN
        /\ (Len(args) = 2 /\ CopyRequest(args[1], args[2])
            /\ ArgTarget(args[1]).path \in fs_ret.files0) =>
               /\ fs_ret.st.results = <<[msg |-> "Copied", text |-> args[1]]>>
               /\ ArgTarget(args[2]).path \in fs_files
        /\ (Len(args) = 3 /\ args[1] = S_dash_r /\ CopyRequest(args[2], args[3])
            /\ ArgTarget(args[2]).path \in fs_ret.dirs0) =>
               /\ fs_ret.st.results = <<[msg |-> "Copied", text |-> args[2]]>>
               /\ ArgTarget(args[3]).path \in fs_dirs
               /\ \A q \in Beneath(fs_ret.files0, ArgTarget(args[2]).path) :
                      Rebase(q, ArgTarget(args[2]).path, ArgTarget(args[3]).path)
                          \in fs_files

-----------------------------------------------------------------------------
(* Specification of the command history: a CommandHistory constructed over  *)
(* a history file, then any calls of its methods                           *)

C_ls == <<"l","s">>
C_mkdir_test == <<"m","k","d","i","r"," ","t","e","s","t">>
C_pwd == <<"p","w","d">>
C_blank == <<" "," "," ">>

\* the commands handed to add
HistCommands == {C_ls, C_mkdir_test, <<>>, C_blank}

\* the entries a history file holds at the start
FileEntries == {C_ls, C_pwd}
FileEntryLists == UNION {[1..n -> FileEntries] : n \in 1..MaxFileLines}

HistoryFiles ==
    {NoFile(TRUE, TRUE), NoFile(TRUE, FALSE), NoFile(FALSE, FALSE)} \cup
    {[exists |-> TRUE, content |-> WrittenLines(es), dir_ok |-> TRUE, file_ok |-> ok] :
        es \in FileEntryLists, ok \in BOOLEAN}

\* what a constructor reads from the file, before it keeps the most recent
EntriesRead(file) ==
    IF file.exists /\ file.file_ok THEN StrippedLines(file.content) ELSE <<>>

\* CommandHistory(max_size) has been constructed
HistInit ==
    /\ EnvIdle
    /\ JailIdle
    /\ FsIdle
    /\ RegIdle
    /\ CliIdle
    /\ NlIdle
    /\ max_size \in 0..MaxHistorySize
    /\ history_file \in HistoryFiles
    /\ history = _load_history(max_size, history_file)
    /\ current_index = 0
    /\ hist_loaded = EntriesRead(history_file)
    /\ hist_added = <<>>
    /\ hist_accepted = EntriesRead(history_file)
    /\ hist_ret = NoCall

HistAdd(command) ==
    /\ Len(hist_added) < MaxAdds
    /\ LET r == add(history, max_size, history_file, command) IN
       /\ history' = r.history
       /\ history_file' = r.file
       /\ hist_accepted' = IF r.accepted THEN Append(hist_accepted, command)
                           ELSE hist_accepted
       /\ hist_ret' = [op |-> "add", arg |-> command, before |-> history,
                       ret |-> None, raised |-> r.raised]
    /\ hist_added' = Append(hist_added, command)
    /\ UNCHANGED <<max_size, current_index, hist_loaded>>
    /\ UNCHANGED <<env_vars, jail_vars, fs_vars, reg_vars, cli_vars, nl_vars>>

HistGetPrevious ==
    /\ LET r == get_previous(history, current_index) IN
       /\ current_index' = r.index
       /\ hist_ret' = [op |-> "get_previous", arg |-> <<>>, before |-> history,
                       ret |-> r.ret, raised |-> r.raised]
    /\ UNCHANGED <<history, max_size, history_file, hist_loaded, hist_added, hist_accepted>>
    /\ UNCHANGED <<env_vars, jail_vars, fs_vars, reg_vars, cli_vars, nl_vars>>

HistGetNext ==
    /\ LET r == get_next(history, current_index) IN
       /\ current_index' = r.index
       /\ hist_ret' = [op |-> "get_next", arg |-> <<>>, before |-> history,
                       ret |-> r.ret, raised |-> r.raised]
    /\ UNCHANGED <<history, max_size, history_file, hist_loaded, hist_added, hist_accepted>>
    /\ UNCHANGED <<env_vars, jail_vars, fs_vars, reg_vars, cli_vars, nl_vars>>

HistResetIndex ==
    /\ current_index' = reset_index(history)
    /\ hist_ret' = [op |-> "reset_index", arg |-> <<>>, before |-> history,
                    ret |-> None, raised |-> ""]
    /\ UNCHANGED <<history, max_size, history_file, hist_loaded, hist_added, hist_accepted>>
    /\ UNCHANGED <<env_vars, jail_vars, fs_vars, reg_vars, cli_vars, nl_vars>>

HistList(limit) ==
    /\ hist_ret' = [op |-> "list_history", arg |-> limit, before |-> history,
                    ret |-> list_history(history, limit), raised |-> ""]
    /\ UNCHANGED <<history, max_size, current_index, history_file,
                   hist_loaded, hist_added, hist_accepted>>
    /\ UNCHANGED <<env_vars, jail_vars, fs_vars, reg_vars, cli_vars, nl_vars>>

\* a new CommandHistory(max_size) over the file as it is now
HistConstruct ==
    /\ history' = _load_history(max_size, history_file)
    /\ current_index' = 0
    /\ hist_loaded' = EntriesRead(history_file)
    /\ hist_added' = <<>>
    /\ hist_accepted' = EntriesRead(history_file)
    /\ hist_ret' = [op |-> "__init__", arg |-> max_size, before |-> history,
                    ret |-> None, raised |-> ""]
    /\ UNCHANGED <<max_size, history_file>>
    /\ UNCHANGED <<env_vars, jail_vars, fs_vars, reg_vars, cli_vars, nl_vars>>

HistNext ==
    \/ \E command \in HistCommands : HistAdd(command)
    \/ HistGetPrevious
    \/ HistGetNext
    \/ HistResetIndex
    \/ \E limit \in 0..MaxLimit : HistList(limit)
    \/ HistConstruct

SpecHist == HistInit /\ [][HistNext]_all_vars

-----------------------------------------------------------------------------
(* Claims about the command history *)

\* the n most recent entries of s, in order
MostRecent(s, n) == IF Len(s) <= n THEN s ELSE SubSeq(s, Len(s) - n + 1, Len(s))

\* C6: in a history that started empty, no two adjacent entries are equal
\* after any add calls, and an add of the command that is the last entry
\* leaves the history as it was.
C6_NoAdjacentDuplicates ==
    hist_loaded = <<>> =>
        /\ \A i \in 1..(Len(history) - 1) : history[i] # history[i + 1]
        /\ (hist_ret.op = "add" /\ hist_ret.before # <<>>
               /\ hist_ret.before[Len(hist_ret.before)] = hist_ret.arg)
            => history = hist_ret.before

\* the last entry has been added again to a history that started empty
C6_Witness ==
    /\ hist_loaded = <<>>
    /\ hist_ret.op = "add"
    /\ hist_ret.before = <<C_mkdir_test, C_ls>>
    /\ hist_ret.arg = C_ls
    /\ history = <<C_mkdir_test, C_ls>>

\* C7: a history bounded at max_size holds at most max_size entries, and they
\* are the most recent max_size of the entries read at construction followed
\* by those add accepted, in that order.
C7_BoundedMostRecent ==
    /\ Len(history) <= max_size
    /\ history = MostRecent(hist_accepted, max_size)

\* C8: in a history that started empty and holds more than two entries at
\* most, add "ls", add "mkdir test", add "ls" leaves two entries.
C8_NoDuplicateAnywhere ==
    (hist_loaded = <<>> /\ max_size >= 3
        /\ hist_added = <<C_ls, C_mkdir_test, C_ls>>)
    => Len(history) = 2

\* C29: after every call the cursor is between 0 and the length of the
\* history; get_previous and get_next raise no IndexError; reset_index puts
\* the cursor behind the newest entry; and get_previous on a history with
\* entries returns the entry before the cursor and moves the cursor onto it,
\* or, with the cursor on the oldest entry, returns the oldest and stays: so
\* after reset_index successive calls return the entries from the newest to
\* the oldest and then the oldest again.
C29_CursorStaysInsideHistory ==
    [][/\ 0 <= current_index' /\ current_index' <= Len(history')
       /\ hist_ret'.op \in {"get_previous", "get_next"} => hist_ret'.raised = ""
       /\ hist_ret'.op = "reset_index" => current_index' = Len(history')
       /\ (hist_ret'.op = "get_previous" /\ history # <<>>) =>
              IF current_index > 0
              THEN /\ hist_ret'.ret = history[current_index]
                   /\ current_index' = current_index - 1
              ELSE /\ hist_ret'.ret = history[1]
                   /\ current_index' = 0]_all_vars

\* get_previous has returned the newest of two entries add appended: the
\* cursor was behind it, where reset_index puts it
C29_Witness ==
    /\ hist_ret.op = "get_previous"
    /\ hist_loaded = <<>>
    /\ history = <<C_ls, C_mkdir_test>>
    /\ current_index = 1
    /\ hist_ret.ret = C_mkdir_test

\* C30: list_history(limit) returns the most recent entries of the history,
\* in order, as many as limit says or all of them when there are fewer; with
\* limit 0 it returns none.
C30_ListHistoryReturnsMostRecent ==
    hist_ret.op = "list_history" =>
        /\ hist_ret.ret = MostRecent(hist_ret.before, hist_ret.arg)
        /\ Len(hist_ret.ret) = (IF hist_ret.arg < Len(hist_ret.before)
                                THEN hist_ret.arg ELSE Len(hist_ret.before))
        /\ hist_ret.arg = 0 => hist_ret.ret = <<>>

-----------------------------------------------------------------------------
(* Specification of the command registry: a CommandRegistry constructed    *)
(* empty, then any register calls and lookups                              *)

C_LS == <<"L","S">>
C_cd == <<"c","d">>
C_general == <<"g","e","n","e","r","a","l">>
C_file == <<"f","i","l","e">>
C_help_text == <<"h","e","l","p"," ","t","e","x","t">>

RegNames == {C_ls, C_LS, C_cd}
RegFuncs == {"cmd_a", "cmd_b"}
\* help_text and category of a register call; the first are the defaults
RegOptions == {<< <<>>, C_general >>, << C_help_text, C_file >>}

RegInit ==
    /\ EnvIdle
    /\ JailIdle
    /\ FsIdle
    /\ HistIdle
    /\ CliIdle
    /\ NlIdle
    /\ registry = NewRegistry
    /\ reg_log = <<>>
    /\ reg_ret = NoCall

Register(name, func, help_text, category) ==
    /\ Len(reg_log) < MaxRegs
    /\ registry' = register(registry, name, func, help_text, category)
    /\ reg_log' = Append(reg_log, [name |-> name, func |-> func])
    /\ reg_ret' = [op |-> "register", arg |-> name, before |-> <<>>,
                   ret |-> None, raised |-> ""]
    /\ UNCHANGED <<env_vars, jail_vars, fs_vars, hist_vars, cli_vars, nl_vars>>

Lookup(op, arg, ret) ==
    /\ reg_ret' = [op |-> op, arg |-> arg, before |-> <<>>, ret |-> ret, raised |-> ""]
    /\ UNCHANGED <<registry, reg_log>>
    /\ UNCHANGED <<env_vars, jail_vars, fs_vars, hist_vars, cli_vars, nl_vars>>

GetCommand(name) == Lookup("get_command", name, get_command(registry, name))

ListCommands(category) == Lookup("list_commands", category, list_commands(registry, category))

GetHelp(command) == Lookup("get_help", command, get_help(registry, command))

RegNext ==
    \/ \E name \in RegNames, func \in RegFuncs, o \in RegOptions :
          Register(name, func, o[1], o[2])
    \/ \E name \in RegNames : GetCommand(name)
    \/ \E category \in {<<>>, C_general, C_file} : ListCommands(category)
    \/ \E name \in RegNames : GetHelp(name)

SpecReg == RegInit /\ [][RegNext]_all_vars

-----------------------------------------------------------------------------
(* Claims about the command registry *)

\* the register calls made for a name, in order
RegistrationsOf(name) == SelectSeq(reg_log, LAMBDA r : r.name = name)

\* the handler of the most recent register call for a name, None if none
LastRegistered(name) ==
    LET rs == RegistrationsOf(name)
    IN  IF rs = <<>> THEN None ELSE rs[Len(rs)].func

\* C10: get_command(name) is the handler of the most recent register call
\* for exactly that name, and None for a name never registered, also when a
\* name that differs only in letter case has been registered.
C10_LookupReturnsLastRegistered ==
    /\ \A name \in RegNames : get_command(registry, name) = LastRegistered(name)
    /\ reg_ret.op = "get_command" => reg_ret.ret = LastRegistered(reg_ret.arg)

\* "ls" has been registered twice with different handlers, "LS" never, and
\* get_command("ls") has returned the second handler
C10_Witness ==
    /\ Len(RegistrationsOf(C_ls)) = 2
    /\ RegistrationsOf(C_ls)[1].func = "cmd_a"
    /\ RegistrationsOf(C_ls)[2].func = "cmd_b"
    /\ RegistrationsOf(C_LS) = <<>>
    /\ get_command(registry, C_LS) = None
    /\ reg_ret.op = "get_command"
    /\ reg_ret.arg = C_ls
    /\ reg_ret.ret = "cmd_b"

-----------------------------------------------------------------------------
(* app/cli.py: PyTermCLI *)

S_space == <<" ">>

Digits == <<"0", "1", "2", "3", "4", "5", "6", "7", "8", "9">>

\* str.isdigit and int on a text of ASCII digits
isdigit(s) == s # <<>> /\ \A i \in 1..Len(s) : \E d \in 1..Len(Digits) : Digits[d] = s[i]

RECURSIVE int(_)
int(s) ==
    IF s = <<>> THEN 0
    ELSE 10 * int(SubSeq(s, 1, Len(s) - 1))
         + ((CHOOSE d \in 1..Len(Digits) : Digits[d] = s[Len(s)]) - 1)

\* Path.home() of the user who runs the program
Home(os) ==
    IF os = "nt" THEN PurePath(os, <<"c",":","\\","t","m","p">>) ELSE PurePath(os, <<"/","t","m","p">>)

\* the directories of the host the user may not enter: os.chdir raises
\* PermissionError for them
NoEntryDirs(os) ==
    IF os = "nt" THEN {PurePath(os, <<"c",":","\\","e","t","c">>)} ELSE {PurePath(os, <<"/","e","t","c">>)}

\* the register calls of _register_builtin_commands, in order
builtin_commands ==
    << [name |-> <<"h","e","l","p">>, func |-> "_cmd_help", help_text |-> <<"S","h","o","w"," ","h","e","l","p"," ","i","n","f","o","r","m","a","t","i","o","n">>, category |-> <<"u","t","i","l","i","t","y">>],
       [name |-> <<"e","x","i","t">>, func |-> "_cmd_exit", help_text |-> <<"E","x","i","t"," ","P","y","T","e","r","m">>, category |-> <<"u","t","i","l","i","t","y">>],
       [name |-> <<"q","u","i","t">>, func |-> "_cmd_exit", help_text |-> <<"E","x","i","t"," ","P","y","T","e","r","m">>, category |-> <<"u","t","i","l","i","t","y">>],
       [name |-> <<"c","l","e","a","r">>, func |-> "_cmd_clear", help_text |-> <<"C","l","e","a","r"," ","t","h","e"," ","s","c","r","e","e","n">>, category |-> <<"u","t","i","l","i","t","y">>],
       [name |-> <<"h","i","s","t","o","r","y">>, func |-> "_cmd_history", help_text |-> <<"S","h","o","w"," ","c","o","m","m","a","n","d"," ","h","i","s","t","o","r","y">>, category |-> <<"u","t","i","l","i","t","y">>],
       [name |-> <<"p","w","d">>, func |-> "_cmd_pwd", help_text |-> <<"P","r","i","n","t"," ","w","o","r","k","i","n","g"," ","d","i","r","e","c","t","o","r","y">>, category |-> <<"f","i","l","e","s","y","s","t","e","m">>],
       [name |-> <<"c","d">>, func |-> "_cmd_cd", help_text |-> <<"C","h","a","n","g","e"," ","d","i","r","e","c","t","o","r","y">>, category |-> <<"f","i","l","e","s","y","s","t","e","m">>],
       [name |-> <<"l","s">>, func |-> "_cmd_ls", help_text |-> <<"L","i","s","t"," ","d","i","r","e","c","t","o","r","y"," ","c","o","n","t","e","n","t","s">>, category |-> <<"f","i","l","e","s","y","s","t","e","m">>],
       [name |-> <<"m","k","d","i","r">>, func |-> "cmd_mkdir", help_text |-> <<"C","r","e","a","t","e"," ","d","i","r","e","c","t","o","r","i","e","s">>, category |-> <<"f","i","l","e","s","y","s","t","e","m">>],
       [name |-> <<"r","m">>, func |-> "cmd_rm", help_text |-> <<"R","e","m","o","v","e"," ","f","i","l","e","s"," ","a","n","d"," ","d","i","r","e","c","t","o","r","i","e","s">>, category |-> <<"f","i","l","e","s","y","s","t","e","m">>],
       [name |-> <<"t","o","u","c","h">>, func |-> "cmd_touch", help_text |-> <<"C","r","e","a","t","e"," ","e","m","p","t","y"," ","f","i","l","e","s"," ","o","r"," ","u","p","d","a","t","e"," ","t","i","m","e","s","t","a","m","p","s">>, category |-> <<"f","i","l","e","s","y","s","t","e","m">>],
       [name |-> <<"c","a","t">>, func |-> "cmd_cat", help_text |-> <<"D","i","s","p","l","a","y"," ","f","i","l","e"," ","c","o","n","t","e","n","t","s">>, category |-> <<"f","i","l","e","s","y","s","t","e","m">>],
       [name |-> <<"c","p">>, func |-> "cmd_cp", help_text |-> <<"C","o","p","y"," ","f","i","l","e","s"," ","a","n","d"," ","d","i","r","e","c","t","o","r","i","e","s">>, category |-> <<"f","i","l","e","s","y","s","t","e","m">>],
       [name |-> <<"m","v">>, func |-> "cmd_mv", help_text |-> <<"M","o","v","e"," ","o","r"," ","r","e","n","a","m","e"," ","f","i","l","e","s"," ","a","n","d"," ","d","i","r","e","c","t","o","r","i","e","s">>, category |-> <<"f","i","l","e","s","y","s","t","e","m">>],
       [name |-> <<"f","i","n","d">>, func |-> "cmd_find", help_text |-> <<"F","i","n","d"," ","f","i","l","e","s"," ","a","n","d"," ","d","i","r","e","c","t","o","r","i","e","s">>, category |-> <<"f","i","l","e","s","y","s","t","e","m">>],
       [name |-> <<"w","c">>, func |-> "cmd_wc", help_text |-> <<"C","o","u","n","t"," ","l","i","n","e","s",","," ","w","o","r","d","s",","," ","a","n","d"," ","c","h","a","r","a","c","t","e","r","s">>, category |-> <<"f","i","l","e","s","y","s","t","e","m">>],
       [name |-> <<"h","e","a","d">>, func |-> "cmd_head", help_text |-> <<"D","i","s","p","l","a","y"," ","f","i","r","s","t"," ","l","i","n","e","s"," ","o","f"," ","f","i","l","e","s">>, category |-> <<"f","i","l","e","s","y","s","t","e","m">>],
       [name |-> <<"t","a","i","l">>, func |-> "cmd_tail", help_text |-> <<"D","i","s","p","l","a","y"," ","l","a","s","t"," ","l","i","n","e","s"," ","o","f"," ","f","i","l","e","s">>, category |-> <<"f","i","l","e","s","y","s","t","e","m">>],
       [name |-> <<"c","p","u">>, func |-> "cmd_cpu", help_text |-> <<"D","i","s","p","l","a","y"," ","C","P","U"," ","u","s","a","g","e"," ","i","n","f","o","r","m","a","t","i","o","n">>, category |-> <<"s","y","s","t","e","m">>],
       [name |-> <<"m","e","m">>, func |-> "cmd_mem", help_text |-> <<"D","i","s","p","l","a","y"," ","m","e","m","o","r","y"," ","u","s","a","g","e"," ","i","n","f","o","r","m","a","t","i","o","n">>, category |-> <<"s","y","s","t","e","m">>],
       [name |-> <<"p","s">>, func |-> "cmd_ps", help_text |-> <<"D","i","s","p","l","a","y"," ","r","u","n","n","i","n","g"," ","p","r","o","c","e","s","s","e","s">>, category |-> <<"s","y","s","t","e","m">>],
       [name |-> <<"d","i","s","k">>, func |-> "cmd_disk", help_text |-> <<"D","i","s","p","l","a","y"," ","d","i","s","k"," ","u","s","a","g","e"," ","i","n","f","o","r","m","a","t","i","o","n">>, category |-> <<"s","y","s","t","e","m">>],
       [name |-> <<"u","p","t","i","m","e">>, func |-> "cmd_uptime", help_text |-> <<"D","i","s","p","l","a","y"," ","s","y","s","t","e","m"," ","u","p","t","i","m","e">>, category |-> <<"s","y","s","t","e","m">>],
       [name |-> <<"n","e","t">>, func |-> "cmd_net", help_text |-> <<"D","i","s","p","l","a","y"," ","n","e","t","w","o","r","k"," ","i","n","f","o","r","m","a","t","i","o","n">>, category |-> <<"s","y","s","t","e","m">>],
       [name |-> <<"n","l","c">>, func |-> "cmd_nlc", help_text |-> <<"P","r","o","c","e","s","s"," ","n","a","t","u","r","a","l"," ","l","a","n","g","u","a","g","e"," ","c","o","m","m","a","n","d","s">>, category |-> <<"n","a","t","u","r","a","l">>],
       [name |-> <<"c","o","m","p","i","l","e">>, func |-> "cmd_compile", help_text |-> <<"C","o","m","p","i","l","e"," ","a","n","d"," ","a","n","a","l","y","z","e"," ","c","o","d","e"," ","w","i","t","h"," ","C","o","d","e","M","a","t","e">>, category |-> <<"c","o","d","e","m","a","t","e">>],
       [name |-> <<"a","n","a","l","y","z","e">>, func |-> "cmd_analyze", help_text |-> <<"A","n","a","l","y","z","e"," ","c","o","d","e"," ","f","o","r"," ","i","s","s","u","e","s"," ","a","n","d"," ","i","m","p","r","o","v","e","m","e","n","t","s">>, category |-> <<"c","o","d","e","m","a","t","e">>],
       [name |-> <<"o","p","t","i","m","i","z","e">>, func |-> "cmd_optimize", help_text |-> <<"O","p","t","i","m","i","z","e"," ","c","o","d","e"," ","f","o","r"," ","b","e","t","t","e","r"," ","p","e","r","f","o","r","m","a","n","c","e">>, category |-> <<"c","o","d","e","m","a","t","e">>],
       [name |-> <<"d","e","b","u","g">>, func |-> "cmd_debug", help_text |-> <<"D","e","b","u","g"," ","c","o","d","e"," ","i","s","s","u","e","s"," ","w","i","t","h"," ","A","I"," ","a","s","s","i","s","t","a","n","c","e">>, category |-> <<"c","o","d","e","m","a","t","e">>],
       [name |-> <<"g","e","n","e","r","a","t","e">>, func |-> "cmd_generate", help_text |-> <<"G","e","n","e","r","a","t","e"," ","c","o","d","e"," ","u","s","i","n","g"," ","A","I">>, category |-> <<"c","o","d","e","m","a","t","e">>],
       [name |-> <<"r","e","f","a","c","t","o","r">>, func |-> "cmd_refactor", help_text |-> <<"R","e","f","a","c","t","o","r"," ","c","o","d","e"," ","f","o","r"," ","b","e","t","t","e","r"," ","m","a","i","n","t","a","i","n","a","b","i","l","i","t","y">>, category |-> <<"c","o","d","e","m","a","t","e">>] >>

\* the registry after the register calls from the k-th on
RECURSIVE register_from(_, _)
register_from(reg, k) ==
    IF k > Len(builtin_commands) THEN reg
    ELSE Only({ register_from(r, k + 1)
                : r \in {register(reg, builtin_commands[k].name, builtin_commands[k].func,
                                  builtin_commands[k].help_text,
                                  builtin_commands[k].category)} })

_register_builtin_commands(reg) == register_from(reg, 1)

\* the program as a handler sees it: the host's directories and files, the
\* working directory of the process, and the fields of the PyTermCLI
World ==
    [dirs |-> fs_dirs, files |-> fs_files, cwd |-> cwd,
     current_dir |-> current_dir, running |-> running,
     history |-> history, max_size |-> max_size, current_index |-> current_index,
     history_file |-> history_file, registry |-> registry, clear_ok |-> clear_ok]

\* one line of output
Line(msg, text) == [msg |-> msg, text |-> text]

\* a handler returns its output, or an exception leaves it
Returns(w, out) == [w |-> w, out |-> out, raised |-> ""]
Raises(w, exc) == [w |-> w, out |-> <<>>, raised |-> exc]

_cmd_help(w, args) ==
    IF args = <<>> THEN Returns(w, <<Line("help", <<>>)>>)
    ELSE IF args[1] \in DOMAIN w.registry.commands
    THEN Returns(w, <<Line("Help for", args[1]),
                      Line("help_text", get_help(w.registry, args[1]))>>)
    ELSE Returns(w, <<Line("command_not_found", args[1])>>)

\* the handler that says goodbye and leaves the flag alone
cmd_exit_keeps_running(w, args) == Returns(w, <<Line("Goodbye!", <<>>)>>)

_cmd_exit(w, args) ==
    Returns([w EXCEPT !.running = FALSE], <<Line("Goodbye!", <<>>)>>)

\* subprocess.run raises FileNotFoundError when the program is missing
_cmd_clear(w, args) ==
    IF w.clear_ok THEN Returns(w, <<>>) ELSE Raises(w, "FileNotFoundError")

_cmd_history(w, args) ==
    LET limit == IF args # <<>> /\ isdigit(args[1]) THEN int(args[1]) ELSE 20
        history_entries == list_history(w.history, limit)
    IN  IF history_entries = <<>>
        THEN Returns(w, <<Line("No command history available.", <<>>)>>)
        ELSE Returns(w, <<Line("Command history", <<>>)>>
                        \o [i \in 1..Len(history_entries) |->
                               Line("entry", history_entries[i])])

_cmd_pwd(os, w, args) == Returns(w, <<Line("pwd", Str(os, w.current_dir))>>)

\* current_dir is assigned before os.chdir is called
_cmd_cd(os, w, args) ==
    LET target == IF args = <<>> THEN Home(os)
                  ELSE Join(os, w.current_dir, PurePath(os, args[1]))
        new_dir == Resolve(os, w.cwd, target)
    IN  IF new_dir \notin w.dirs \cup w.files
        THEN Returns(w, <<Line("file_not_found", Str(os, new_dir))>>)
        ELSE IF new_dir \notin w.dirs
        THEN Returns(w, <<Line("invalid_path", Str(os, new_dir))>>)
        ELSE IF new_dir \in NoEntryDirs(os)
        THEN Returns([w EXCEPT !.current_dir = new_dir],
                     <<Line("permission_denied", Str(os, new_dir))>>)
        ELSE Returns([w EXCEPT !.current_dir = new_dir, !.cwd = new_dir],
                     <<Line("directory_changed", Str(os, new_dir))>>)

\* a handler of app/commands/fs.py that changes the filesystem: its output
\* is its result lines joined, and the host is as it left it
fs_handler(w, st) ==
    Returns([w EXCEPT !.dirs = st.dirs, !.files = st.files], st.results)

\* cmd_func(args) for a registered handler; the handlers that only read (ls,
\* cat, find, wc, head, tail, the system monitors, nlc, and the CodeMate
\* handlers called without an output file) return some text
call_handler(os, func, args, w) ==
    CASE func = "_cmd_help" -> _cmd_help(w, args)
      [] func = "_cmd_exit" -> _cmd_exit(w, args)
      [] func = "_cmd_clear" -> _cmd_clear(w, args)
      [] func = "_cmd_history" -> _cmd_history(w, args)
      [] func = "_cmd_pwd" -> _cmd_pwd(os, w, args)
      [] func = "_cmd_cd" -> _cmd_cd(os, w, args)
      [] func = "cmd_mkdir" -> fs_handler(w, cmd_mkdir(os, w.cwd, w.dirs, w.files, args))
      [] func = "cmd_rm" -> fs_handler(w, cmd_rm(os, w.cwd, w.dirs, w.files, args))
      [] func = "cmd_touch" -> fs_handler(w, cmd_touch(os, w.cwd, w.dirs, w.files, args))
      [] func = "cmd_cp" -> fs_handler(w, cmd_cp(os, w.cwd, w.dirs, w.files, args))
      [] func = "cmd_mv" -> fs_handler(w, cmd_mv(os, w.cwd, w.dirs, w.files, args))
      [] OTHER -> Returns(w, <<Line(func, JoinWith(args, S_space))>>)

\* parse_command(input_line): the command and its arguments, or the
\* PyTermError raised for the ValueError of shlex.split
parse_command(input_line) ==
    Only({
    IF r.error # ""
    THEN [raised |-> "PyTermError", message |-> r.error, command |-> <<>>, args |-> <<>>]
    ELSE IF r.parts = <<>>
    THEN [raised |-> "", message |-> "", command |-> <<>>, args |-> <<>>]
    ELSE [raised |-> "", message |-> "", command |-> StrLower(r.parts[1]),
          args |-> Tail(r.parts)]
    : r \in {shlex_split(Strip(input_line))} })

\* one call of a handler, as execute_command and _try_natural_language make
\* it, and what the handler returned (r.out) or raised (r.raised)
Call(name, func, args, r) ==
    [name |-> name, func |-> func, args |-> args, raised |-> r.raised, out |-> r.out]

\* what execute_command did: the program after it, the text it returned, the
\* handlers it called and the texts it handed to the resolver
Executed(w, output, calls, resolver) ==
    [w |-> w, output |-> output, calls |-> calls, resolver |-> resolver]

\* the text made of the arguments alone, the command left out
nl_input_text_remainder(command, args) == Strip(JoinWith(args, S_space))

\* f"{command} {' '.join(args)}".strip()
nl_input_text(command, args) == Strip(command \o S_space \o JoinWith(args, S_space))

-----------------------------------------------------------------------------
(* The lines typed at the prompt *)

InputLines ==
    { <<>>, <<" "," "," ">>, <<" ","\t"," ">>,
      \* commands of the registry
      <<"l","s">>, <<"L","S"," ","-","l">>, <<"p","w","d">>, <<"c","a","t"," ","f">>,
      <<"c","d">>, <<"c","d"," ","d">>, <<"c","d"," ",".",".">>, <<"c","d"," ","o","u","t">>, <<"c","d"," ","f">>,
      <<"m","k","d","i","r"," ","n">>, <<"r","m"," ","d">>, <<"r","m"," ","-","r"," ","d">>, <<"r","m"," ","f">>, <<"t","o","u","c","h"," ","n">>,
      <<"c","p"," ","f"," ","n">>, <<"m","v"," ","f"," ","n">>,
      <<"h","e","l","p">>, <<"h","e","l","p"," ","L","S">>, <<"h","i","s","t","o","r","y">>, <<"h","i","s","t","o","r","y"," ","0">>, <<"c","l","e","a","r">>,
      <<"e","x","i","t">>, <<"E","X","I","T">>, <<"q","u","i","t">>,
      \* natural language
      <<"s","h","o","w"," ","f","i","l","e","s">>, <<"h","e","l","p"," ","m","e">>, <<"e","x","i","t"," ","t","h","e"," ","p","r","o","g","r","a","m">>, <<"b","y","e">>,
      <<"c","l","e","a","r"," ","t","h","e"," ","s","c","r","e","e","n">>, <<"w","i","p","e"," ","t","h","e"," ","s","c","r","e","e","n">>, <<"l","i","s","t"," ","a","l","l"," ","f","i","l","e","s">>,
      <<"C","R","E","A","T","E"," ","F","O","L","D","E","R"," ","T","e","s","t","D","i","r">>,
      <<"c","r","e","a","t","e"," ","f","o","l","d","e","r"," ","\"","m","y"," ","d","i","r","\"">>,
      <<"d","e","l","e","t","e"," ","t","h","e"," ","d","i","r","e","c","t","o","r","y"," ","d">>, <<"r","e","m","o","v","e"," ","t","h","e"," ","d","i","r","e","c","t","o","r","y"," ","d">>,
      <<"o","p","e","n"," ","t","h","e"," ","f","i","l","e"," ","f">>, <<"h","o","w"," ","m","u","c","h"," ","m","e","m","o","r","y"," ","u","s","a","g","e">>, <<"f","i","n","d"," ","x">>,
      <<"d","e","l","e","t","e"," ","-","r"," ","d">>, <<"d","e","l","e","t","e"," ","-","R"," ","d">>,
      <<"f","r","o","b","n","i","c","a","t","e">>,
      \* lines shlex.split refuses or empties
      <<"c","a","t"," ","\"","f">>, <<"\"","\"">> }

\* BuiltinRegistry is the registry of a PyTermCLI after __init__
BuiltinRegistry == _register_builtin_commands(NewRegistry)

\* the texts _try_natural_language hands to the resolver for the input lines
ResolverTexts ==
    {nl_input_text(pc.command, pc.args) :
        pc \in {p \in {parse_command(Strip(l)) : l \in InputLines} :
                  /\ p.raised = ""
                  /\ p.command # <<>>
                  /\ p.command \notin DOMAIN BuiltinRegistry.commands}}

\* process_natural_language is a function of its text alone: its values on
\* the texts of the input lines
Resolved == [t \in ResolverTexts |-> process_natural_language(t)]

resolve(input_text) ==
    IF input_text \in DOMAIN Resolved THEN Resolved[input_text]
    ELSE process_natural_language(input_text)

-----------------------------------------------------------------------------
(* app/cli.py: execute_command, _try_natural_language and the loop of run *)

\* the handler execute_command is to call: cmd_func of the registry for the
\* command, or on a miss the one _try_natural_language looks up for what the
\* resolver made of the text; func is "" when there is none
Target(via, name, func, args, input_text) ==
    [via |-> via, name |-> name, func |-> func, args |-> args,
     input_text |-> input_text]

\* the lookup that takes the first word of what the resolver names for the
\* command and the other words for its first arguments
find_handler_first_word(w, command, args) ==
    IF command \in DOMAIN w.registry.commands
    THEN Target("registry", command, w.registry.commands[command], args, <<>>)
    ELSE Only({
         IF words # <<>> /\ Head(words) \in DOMAIN w.registry.commands
         THEN Target("resolver", Head(words), w.registry.commands[Head(words)],
                     Tail(words) \o p.args, input_text)
         ELSE Target("resolver", p.command, "", p.args, input_text)
         : input_text \in {nl_input_text(command, args)},
           p \in {process_natural_language(nl_input_text(command, args))},
           words \in {SplitWhitespace(
                          process_natural_language(nl_input_text(command, args)).command)} })

\* the lookup that asks the resolver before the registry
find_handler_resolver_first(w, command, args) ==
    Only({
    IF p.command \in DOMAIN w.registry.commands
    THEN Target("resolver", p.command, w.registry.commands[p.command], p.args,
                input_text)
    ELSE IF command \in DOMAIN w.registry.commands
    THEN Target("registry", command, w.registry.commands[command], args, <<>>)
    ELSE Target("resolver", p.command, "", p.args, input_text)
    : input_text \in {nl_input_text(command, args)},
      p \in {process_natural_language(nl_input_text(command, args))} })

find_handler(w, command, args) ==
    IF command \in DOMAIN w.registry.commands
    THEN Target("registry", command, w.registry.commands[command], args, <<>>)
    ELSE Only({
         Target("resolver", p.command,
                IF p.command \in DOMAIN w.registry.commands
                THEN w.registry.commands[p.command] ELSE "",
                p.args, input_text)
         : input_text \in {nl_input_text(command, args)},
           p \in {resolve(nl_input_text(command, args))} })

\* the fallback that returns what the handler returned and no more
try_natural_language_bare(w, command, t, r) ==
    IF t.name = <<>>
    THEN Executed(w, <<Line("command_not_found", command)>>, <<>>, <<t.input_text>>)
    ELSE IF t.func = ""
    THEN Executed(w, <<Line("not found", t.name)>>, <<>>, <<t.input_text>>)
    ELSE IF r.raised # ""
    THEN Executed(r.w, <<Line("command_not_found", command)>>,
                  <<Call(t.name, t.func, t.args, r)>>, <<t.input_text>>)
    ELSE Executed(r.w, r.out, <<Call(t.name, t.func, t.args, r)>>, <<t.input_text>>)

\* _try_natural_language once the resolver has answered with t and, where t
\* names a registered command, its handler has returned or raised r: any
\* exception is caught and reported as an unknown command
_try_natural_language(w, command, t, r) ==
    LET explanation ==
            Line("Understood",
                 <<"U","n","d","e","r","s","t","o","o","d"," ","'">> \o t.input_text
                 \o <<"'"," ","a","s",":"," ">> \o t.name \o S_space
                 \o JoinWith(t.args, S_space))
    IN  IF t.name = <<>>
        THEN Executed(w, <<Line("command_not_found", command)>>, <<>>, <<t.input_text>>)
        ELSE IF t.func = ""
        THEN Executed(w, <<explanation, Line("not found", t.name)>>, <<>>,
                      <<t.input_text>>)
        ELSE IF r.raised # ""
        THEN Executed(r.w, <<Line("command_not_found", command)>>,
                      <<Call(t.name, t.func, t.args, r)>>, <<t.input_text>>)
        ELSE Executed(r.w, <<explanation>> \o r.out,
                      <<Call(t.name, t.func, t.args, r)>>, <<t.input_text>>)

\* the dispatcher that gives up when a handler raises: the loop is told to stop
execute_command_fatal(os, w, command, args) ==
    Only({
    Only({
        IF r.raised # ""
        THEN Executed([r.w EXCEPT !.running = FALSE],
                      <<Line("Unexpected error", <<>>)>>,
                      <<Call(t.name, t.func, t.args, r)>>,
                      IF t.via = "resolver" THEN <<t.input_text>> ELSE <<>>)
        ELSE IF t.via = "resolver" THEN _try_natural_language(w, command, t, r)
        ELSE Executed(r.w, r.out, <<Call(command, t.func, args, r)>>, <<>>)
        : r \in {IF t.func = "" THEN Returns(w, <<>>)
                 ELSE call_handler(os, t.func, t.args, w)} })
    : t \in {find_handler(w, command, args)} })

\* the handlers modelled raise no PyTermError; any other exception of a
\* handler of the registry is reported as an unexpected error
execute_command(os, w, command, args) ==
    Only({
    Only({
        IF t.via = "resolver" THEN _try_natural_language(w, command, t, r)
        ELSE IF r.raised # ""
        THEN Executed(r.w, <<Line("Unexpected error", <<>>)>>,
                      <<Call(command, t.func, args, r)>>, <<>>)
        ELSE Executed(r.w, r.out, <<Call(command, t.func, args, r)>>, <<>>)
        : r \in {IF t.func = "" THEN Returns(w, <<>>)
                 ELSE call_handler(os, t.func, t.args, w)} })
    : t \in {find_handler(w, command, args)} })

\* what an iteration did to the program, and what it read and did
Iterated(w, it) == [w |-> w, it |-> it]

\* the body of the loop of run for a line read at the prompt
run_iteration(os, w, line) ==
    Only({
    IF user_input = <<>> THEN Iterated(w, it0)
    ELSE Only({
         IF a.raised # ""
         THEN \* _save_history raised: left to the except clause of run
              Iterated([w EXCEPT !.history = a.history, !.history_file = a.file],
                       [it0 EXCEPT !.added = TRUE, !.accepted = a.accepted,
                                   !.raised = a.raised,
                                   !.output = <<Line("Error", <<>>)>>])
         ELSE Only({
              IF pc.raised # ""
              THEN Iterated(w1, [it1 EXCEPT !.raised = pc.raised,
                                            !.output = <<Line("Error", <<>>)>>])
              ELSE IF pc.command = <<>> THEN Iterated(w1, it1)
              ELSE Only({
                   Iterated(x.w, [it1 EXCEPT !.command = pc.command, !.args = pc.args,
                                             !.executed = TRUE,
                                             !.calls = x.calls, !.resolver = x.resolver,
                                             !.output = x.output])
                   : x \in {execute_command(os, w1, pc.command, pc.args)} })
              : pc \in {parse_command(user_input)},
                w1 \in {[w EXCEPT !.history = a.history, !.history_file = a.file,
                                  !.current_index = reset_index(a.history)]},
                it1 \in {[it0 EXCEPT !.added = TRUE, !.accepted = a.accepted,
                                     !.reset = TRUE]} })
         : a \in {add(w.history, w.max_size, w.history_file, user_input)} })
    : user_input \in {Strip(line)},
      it0 \in {[NoIteration EXCEPT !.event = "line", !.line = line,
                                   !.user_input = Strip(line)]} })

-----------------------------------------------------------------------------
(* Specification of the REPL: a PyTermCLI constructed at the root of the   *)
(* application, then the iterations of the loop of run                     *)

\* the history file when the program starts
CliHistoryFiles ==
    {NoFile(TRUE, TRUE), NoFile(FALSE, FALSE),
     [exists |-> TRUE, content |-> WrittenLines(<<C_ls>>), dir_ok |-> TRUE,
      file_ok |-> TRUE]}

CliInit ==
    /\ EnvIdle
    /\ JailIdle
    /\ FsIdle
    /\ registry = BuiltinRegistry
    /\ reg_log = [k \in 1..Len(builtin_commands) |->
                     [name |-> builtin_commands[k].name,
                      func |-> builtin_commands[k].func]]
    /\ reg_ret = NoCall
    /\ max_size = MAX_HISTORY_SIZE
    /\ history_file \in CliHistoryFiles
    /\ history = _load_history(max_size, history_file)
    /\ current_index = 0
    /\ hist_loaded = EntriesRead(history_file)
    /\ hist_added = <<>>
    /\ hist_accepted = EntriesRead(history_file)
    /\ hist_ret = NoCall
    /\ current_dir = cwd
    /\ running = TRUE
    /\ cli_state = "AwaitingInput"
    /\ clear_ok \in BOOLEAN
    /\ steps = 0
    /\ last = NoIteration
    /\ NlIdle

\* input() returned a line: one iteration of the loop, to its end
ReadLine(line) ==
    /\ cli_state = "AwaitingInput"
    /\ steps < MaxSteps
    /\ \E r \in {run_iteration(os_name, World, line)} :
          /\ fs_dirs' = r.w.dirs
          /\ fs_files' = r.w.files
          /\ cwd' = r.w.cwd
          /\ current_dir' = r.w.current_dir
          /\ running' = r.w.running
          /\ history' = r.w.history
          /\ current_index' = r.w.current_index
          /\ history_file' = r.w.history_file
          /\ hist_added' = IF r.it.added THEN Append(hist_added, r.it.user_input)
                           ELSE hist_added
          /\ hist_accepted' = IF r.it.accepted THEN Append(hist_accepted, r.it.user_input)
                              ELSE hist_accepted
          /\ hist_ret' = IF r.it.reset
                         THEN [op |-> "reset_index", arg |-> <<>>, before |-> r.w.history,
                               ret |-> None, raised |-> ""]
                         ELSE IF r.it.added
                         THEN [op |-> "add", arg |-> r.it.user_input, before |-> history,
                               ret |-> None, raised |-> r.it.raised]
                         ELSE hist_ret
          /\ cli_state' = IF r.w.running THEN "AwaitingInput" ELSE "Stopped"
          /\ last' = r.it
    /\ steps' = steps + 1
    /\ UNCHANGED <<os_name, max_size, hist_loaded, clear_ok, jail_vars, fs_vars, reg_vars,
                   nl_vars>>

\* Ctrl+C at the prompt: KeyboardInterrupt, a hint is printed, the loop goes on
Interrupt ==
    /\ cli_state = "AwaitingInput"
    /\ steps < MaxSteps
    /\ last' = [NoIteration EXCEPT !.event = "KeyboardInterrupt",
                                   !.output = <<Line("hint", <<>>)>>]
    /\ steps' = steps + 1
    /\ UNCHANGED <<env_vars, jail_vars, fs_vars, hist_vars, reg_vars,
                   current_dir, running, cli_state, clear_ok, nl_vars>>

\* end of input at the prompt: EOFError, the loop is left
EndOfInput ==
    /\ cli_state = "AwaitingInput"
    /\ steps < MaxSteps
    /\ cli_state' = "Stopped"
    /\ last' = [NoIteration EXCEPT !.event = "EOFError",
                                   !.output = <<Line("Goodbye!", <<>>)>>]
    /\ steps' = steps + 1
    /\ UNCHANGED <<env_vars, jail_vars, fs_vars, hist_vars, reg_vars,
                   current_dir, running, clear_ok, nl_vars>>

CliNext ==
    \/ \E line \in InputLines : ReadLine(line)
    \/ Interrupt
    \/ EndOfInput

SpecCli == CliInit /\ [][CliNext]_all_vars

-----------------------------------------------------------------------------
(* Claims about the REPL *)

\* the program: the host's filesystem and working directory, the history and
\* its file, and the fields of the PyTermCLI
program_vars ==
    <<fs_dirs, fs_files, cwd, history, max_size, current_index, history_file,
      registry, current_dir, running, cli_state>>

\* a line of whitespace characters only, or of none
IsBlank(line) == \A i \in 1..Len(line) : line[i] \in Whitespace

\* C9: an iteration that reads an empty or whitespace-only line leaves the
\* program as it was: the history and its file are unchanged, no handler is
\* called, nothing is handed to the resolver, and the loop awaits input again.
C9_BlankLineChangesNothing ==
    [][(last'.event = "line" /\ IsBlank(last'.line))
        => /\ UNCHANGED program_vars
           /\ ~last'.added
           /\ last'.calls = <<>>
           /\ last'.resolver = <<>>
           /\ ~last'.executed
           /\ cli_state' = "AwaitingInput"]_all_vars

\* a whitespace-only line has been read after a command was run, with a
\* history that holds an entry
C9_Witness ==
    /\ last.event = "line"
    /\ last.line = C_blank
    /\ steps = 2
    /\ history # <<>>
    /\ cli_state = "AwaitingInput"

\* the words typed on a line, in the case they were typed: the tokens
\* shlex.split makes of the line and the whitespace-separated words in them
TypedWords(user_input) ==
    LET tokens == shlex_split(user_input).parts
        words == SplitWhitespace(JoinWith(tokens, S_space))
    IN  {tokens[i] : i \in 1..Len(tokens)} \cup {words[i] : i \in 1..Len(words)}

\* C11: every argument a handler is called with is a word of the line in the
\* case the user typed it, whether the handler was found in the registry or
\* through the natural-language resolver.
C11_ArgsKeepTypedCase ==
    \A k \in 1..Len(last.calls) :
        \A i \in 1..Len(last.calls[k].args) :
            last.calls[k].args[i] \in TypedWords(last.user_input)

\* the tokens shlex.split makes of a line
TypedTokens(user_input) == shlex_split(user_input).parts

\* the line has a first token, and lowercased it is a name of the registry
FirstTokenRegistered(user_input) ==
    /\ TypedTokens(user_input) # <<>>
    /\ StrLower(Head(TypedTokens(user_input))) \in DOMAIN registry.commands

\* C15: when the lowercased first token of the line read is a registered
\* command, nothing is handed to the resolver and no handler but the one
\* registered for that token is called, with the remaining tokens as its
\* arguments; and when the line is dispatched (execute_command is called for
\* it), that handler is called exactly once.
C15_ResolverOnlyOnRegistryMiss ==
    (last.event = "line" /\ FirstTokenRegistered(last.user_input)) =>
        LET tokens == TypedTokens(last.user_input) IN
        /\ last.resolver = <<>>
        /\ \A k \in 1..Len(last.calls) :
               /\ last.calls[k].name = StrLower(Head(tokens))
               /\ last.calls[k].func = registry.commands[StrLower(Head(tokens))]
               /\ last.calls[k].args = Tail(tokens)
        /\ last.executed => Len(last.calls) = 1

\* 'exit the program' has been read and dispatched: the resolver has a
\* pattern for the whole line, but exit is in the registry and its handler
\* was called with the two words after it
C15_Witness ==
    /\ last.event = "line"
    /\ last.user_input = <<"e","x","i","t"," ","t","h","e"," ","p","r","o","g","r","a","m">>
    /\ last.executed
    /\ resolve(last.user_input).command = <<"e","x","i","t">>
    /\ Len(last.calls) = 1
    /\ last.calls[1].func = "_cmd_exit"
    /\ last.calls[1].args = <<<<"t","h","e">>, <<"p","r","o","g","r","a","m">>>>
    /\ last.resolver = <<>>

\* execute_command was called for the line read and its command is not in
\* the registry
RegistryMiss ==
    /\ last.event = "line"
    /\ last.executed
    /\ last.command \notin DOMAIN registry.commands

\* what the resolver makes of the text _try_natural_language builds from the
\* command and the args of the line read
Interpreted == resolve(nl_input_text(last.command, last.args))

\* the line that tells how the text was understood
ExplanationLine(input_text, p) ==
    Line("Understood",
         <<"U","n","d","e","r","s","t","o","o","d"," ","'">> \o input_text
         \o <<"'"," ","a","s",":"," ">> \o p.command \o S_space
         \o JoinWith(p.args, S_space))

\* C16: on a registry miss where the resolver yields a registered command,
\* the handler registered for that command is called exactly once, with the
\* resolver's args; and the output returned when it has returned is the
\* explanation line naming the interpreted command and args, followed by what
\* the handler returned.
C16_ResolvedHandlerCalledOnceWithExplanation ==
    (RegistryMiss /\ Interpreted.command \in DOMAIN registry.commands) =>
        /\ Len(last.calls) = 1
        /\ last.calls[1].name = Interpreted.command
        /\ last.calls[1].func = registry.commands[Interpreted.command]
        /\ last.calls[1].args = Interpreted.args
        /\ last.calls[1].raised = "" =>
               /\ last.output # <<>>
               /\ Head(last.output)
                      = ExplanationLine(nl_input_text(last.command, last.args),
                                        Interpreted)
               /\ Tail(last.output) = last.calls[1].out

\* 'delete the directory d' has been read: delete is not in the registry, the
\* resolver made rm d of it, and the output is the explanation line and then
\* the one line cmd_rm returned
C16_Witness ==
    /\ RegistryMiss
    /\ last.user_input = <<"d","e","l","e","t","e"," ","t","h","e"," ","d","i","r","e","c","t","o","r","y"," ","d">>
    /\ Interpreted.command = <<"r","m">>
    /\ Len(last.calls) = 1
    /\ last.calls[1].func = "cmd_rm"
    /\ last.calls[1].args = <<<<"d">>>>
    /\ Len(last.calls[1].out) = 1
    /\ Len(last.output) = 2
    /\ Head(last.output).msg = "Understood"

\* C17: on a registry miss no handler is called unless the command the
\* resolver names is exactly a name of the registry: when it names a command
\* that is not registered (such as the templates 'rm -r', 'ls -a' and
\* 'find -name'), the output reports that command as not found; when it
\* yields no command, the output is the standard not-found message for the
\* command typed.
C17_NoHandlerForUnregisteredResolution ==
    (RegistryMiss /\ Interpreted.command \notin DOMAIN registry.commands) =>
        /\ last.calls = <<>>
        /\ Interpreted.command # <<>> =>
               /\ Len(last.output) = 2
               /\ last.output[2] = Line("not found", Interpreted.command)
        /\ Interpreted.command = <<>> =>
               last.output = <<Line("command_not_found", last.command)>>

\* 'remove the directory d' has been read: the resolver named 'rm -r', which
\* is no name of the registry although rm is; no handler was called, the
\* output reports 'rm -r' as not found and the directory d is still there
C17_Witness ==
    /\ RegistryMiss
    /\ last.user_input = <<"r","e","m","o","v","e"," ","t","h","e"," ","d","i","r","e","c","t","o","r","y"," ","d">>
    /\ Interpreted.command = <<"r","m"," ","-","r">>
    /\ <<"r","m">> \in DOMAIN registry.commands
    /\ last.calls = <<>>
    /\ last.output[2] = Line("not found", <<"r","m"," ","-","r">>)
    /\ Join(os_name, ROOT_DIR(os_name), PurePath(os_name, <<"d">>)) \in fs_dirs

\* a handler called in an iteration raised an exception
HandlerRaised(it) == \E k \in 1..Len(it.calls) : it.calls[k].raised # ""

\* the exit handler was called in an iteration, and returned
ExitHandlerRan(it) ==
    \E k \in 1..Len(it.calls) : it.calls[k].func = "_cmd_exit" /\ it.calls[k].raised = ""

\* the output of an iteration is one line, and it reports an error
OneErrorLine(it) ==
    /\ Len(it.output) = 1
    /\ it.output[1].msg \in {"Error", "Unexpected error", "command_not_found"}

TypedErrors == {"PyTermError", "PathError", "SecurityError"}

\* C19: when a handler called in an iteration raised, the output is one error
\* line of the kind of the exception: 'Error' with the message for a
\* PyTermError, 'Unexpected error' for any other exception; so whether the
\* handler was found in the registry or through the resolver, and never the
\* not-found message.
C19_HandlerErrorsShownByKind ==
    \A k \in 1..Len(last.calls) :
        last.calls[k].raised # "" =>
            /\ Len(last.output) = 1
            /\ last.output[1].msg = IF last.calls[k].raised \in TypedErrors
                                    THEN "Error" ELSE "Unexpected error"

\* C20: an iteration in which the exit handler has run (for exit or quit
\* typed in any letter case, with or without arguments, or found through the
\* resolver) ends with the stop flag set and the loop Stopped; and once the
\* loop is Stopped no line is read and nothing is executed any more.
C20_ExitStopsTheLoop ==
    [][/\ ExitHandlerRan(last') => (~running' /\ cli_state' = "Stopped")
       /\ cli_state # "Stopped"]_all_vars

\* 'bye' has been read after another line: bye is not in the registry, the
\* resolver made exit of it, the exit handler ran, and the loop is Stopped
C20_Witness ==
    /\ steps = 2
    /\ last.event = "line"
    /\ last.user_input = <<"b","y","e">>
    /\ last.resolver # <<>>
    /\ ExitHandlerRan(last)
    /\ ~running
    /\ cli_state = "Stopped"

\* C21: an interrupt at the prompt that does not follow another one shows
\* the hint and the loop goes on awaiting input; an interrupt that follows
\* another one stops the loop; the end of input stops the loop and prints the
\* farewell line.
C21_InterruptsAndEndOfInput ==
    [][/\ (last'.event = "KeyboardInterrupt" /\ last.event # "KeyboardInterrupt") =>
              /\ last'.output = <<Line("hint", <<>>)>>
              /\ cli_state' = "AwaitingInput"
       /\ (last'.event = "KeyboardInterrupt" /\ last.event = "KeyboardInterrupt") =>
              cli_state' = "Stopped"
       /\ last'.event = "EOFError" =>
              /\ last'.output = <<Line("Goodbye!", <<>>)>>
              /\ cli_state' = "Stopped"]_all_vars

\* the line ends inside a quotation: shlex.split raises ValueError for it
UnterminatedQuote(user_input) == shlex_split(user_input).error = "No closing quotation"

\* C22: when the loop hands a line with an unterminated quote to
\* parse_command, no exception leaves parse_command, the user is shown an
\* error, no handler is called and the loop awaits input again.
C22_UnterminatedQuoteHandledByParseCommand ==
    (last.event = "line" /\ last.reset /\ UnterminatedQuote(last.user_input)) =>
        /\ last.raised = ""
        /\ last.output # <<>>
        /\ last.calls = <<>>
        /\ ~last.executed
        /\ cli_state = "AwaitingInput"

\* C25 as stated: on a registry miss the one text handed to the resolver is
\* the line as it was typed (without the surrounding whitespace run strips).
C25_ResolverGetsTheTypedLine ==
    RegistryMiss => last.resolver = <<last.user_input>>

\* C25, amended: on a registry miss the one text handed to the resolver is
\* rebuilt from the tokens of the line: the first token in lower case and the
\* other tokens as shlex.split made them, joined by single spaces and
\* stripped; quotes and the spacing of the line do not reach the resolver.
C25_ResolverGetsTheRejoinedTokens ==
    RegistryMiss =>
        LET tokens == TypedTokens(last.user_input) IN
        last.resolver = <<Strip(JoinWith(<<StrLower(Head(tokens))>> \o Tail(tokens),
                                         S_space))>>

\* create folder "my dir" was read: the resolver got the text without the
\* quotes
C25_Witness ==
    /\ RegistryMiss
    /\ last.user_input = <<"c","r","e","a","t","e"," ","f","o","l","d","e","r"," ","\"","m","y"," ","d","i","r","\"">>
    /\ last.resolver = <<<<"c","r","e","a","t","e"," ","f","o","l","d","e","r"," ","m","y"," ","d","i","r">>>>

\* the line read was appended to the history and the history could not be
\* written to its file
PersistFailed ==
    /\ last.event = "line"
    /\ last.accepted
    /\ (~history_file.dir_ok \/ ~history_file.file_ok)

\* C26: when the history cannot be persisted, add returns without raising
\* (the loop goes on to reset_index), the line is the newest entry of the
\* history in memory, and the line is tokenized and, when it has a command,
\* executed in the same iteration.
C26_PersistFailureSwallowedInAdd ==
    PersistFailed =>
        /\ last.reset
        /\ last.raised # "PathError"
        /\ history # <<>> /\ history[Len(history)] = last.user_input
        /\ (shlex_split(last.user_input).error = ""
            /\ TypedTokens(last.user_input) # <<>>) => last.executed

\* the words of the text the resolver works on: the tokens of the line
\* joined, in lower case, split at whitespace
LoweredWords(user_input) ==
    LET words == SplitWhitespace(StrLower(JoinWith(TypedTokens(user_input), S_space)))
    IN  {words[i] : i \in 1..Len(words)}

\* the iteration called the handler of rm and a directory of the host is gone
DirectoryRemoved(dirs_before, dirs_after, it) ==
    /\ \E k \in 1..Len(it.calls) : it.calls[k].func = "cmd_rm"
    /\ ~(dirs_before \subseteq dirs_after)

\* C27 as stated: a line that misses the registry never has the handler of
\* rm called with -r, and every directory of the host is still there after it.
C27_NoRecursiveRemovalOnRegistryMiss ==
    [][RegistryMiss' =>
          /\ \A k \in 1..Len(last'.calls) :
                 last'.calls[k].func = "cmd_rm" => ~HasArg(last'.calls[k].args, S_dash_r)
          /\ ~DirectoryRemoved(fs_dirs, fs_dirs', last')]_all_vars

\* C27, amended: a line that misses the registry has a directory removed only
\* when -r, in either letter case, is a word of the line; 'remove the
\* directory d' is resolved to 'rm -r', which is not registered, and calls
\* nothing; 'delete the directory d' calls the handler of rm with d alone;
\* after either line every directory is still there.
C27_RecursiveRemovalOnlyWithTypedFlag ==
    [][RegistryMiss' =>
          /\ DirectoryRemoved(fs_dirs, fs_dirs', last') =>
                 S_dash_r \in LoweredWords(last'.user_input)
          /\ last'.user_input = <<"r","e","m","o","v","e"," ","t","h","e"," ","d","i","r","e","c","t","o","r","y"," ","d">> =>
                 /\ Interpreted'.command = <<"r","m"," ","-","r">>
                 /\ last'.calls = <<>>
                 /\ fs_dirs' = fs_dirs
          /\ last'.user_input = <<"d","e","l","e","t","e"," ","t","h","e"," ","d","i","r","e","c","t","o","r","y"," ","d">> =>
                 /\ Len(last'.calls) = 1
                 /\ last'.calls[1].func = "cmd_rm"
                 /\ last'.calls[1].args = <<<<"d">>>>
                 /\ fs_dirs' = fs_dirs]_all_vars

\* 'delete -r d' was read in the root of the application: the resolver made
\* rm -r d of it and the directory d is gone
C27_Witness ==
    /\ RegistryMiss
    /\ last.user_input = <<"d","e","l","e","t","e"," ","-","r"," ","d">>
    /\ Len(last.calls) = 1
    /\ last.calls[1].func = "cmd_rm"
    /\ last.calls[1].args = <<S_dash_r, <<"d">>>>
    /\ Join(os_name, ROOT_DIR(os_name), PurePath(os_name, <<"d">>)) \notin fs_dirs
    /\ cwd = ROOT_DIR(os_name)

\* the iteration called the handler of cd and it returned an error message
CdRefused(it) ==
    \E k \in 1..Len(it.calls) :
        /\ it.calls[k].func = "_cmd_cd"
        /\ \E n \in 1..Len(it.calls[k].out) :
               it.calls[k].out[n].msg \in {"file_not_found", "invalid_path",
                                           "permission_denied"}

\* C28: after every iteration of the loop current_dir is the working
\* directory of the process, and an iteration in which cd returned an error
\* message leaves current_dir and the working directory as they were.
C28_CurrentDirIsWorkingDirectory ==
    [][/\ current_dir' = cwd'
       /\ CdRefused(last') => (current_dir' = current_dir /\ cwd' = cwd)]_all_vars

-----------------------------------------------------------------------------
(* Specification of the natural-language parser: a text is chosen and      *)
(* NaturalLanguageParser().parse is called on it                           *)

\* the most words that follow a phrase in a text
MaxNlArgs == 2

\* the phrases the texts begin with
NlPhrases ==
    {
      \* the base patterns of config.py
      <<"s","h","o","w"," ","f","i","l","e","s">>,
      <<"S","h","o","w"," ","M","e"," ","T","h","e"," ","F","i","l","e","s">>,
      <<"l","i","s","t"," ","t","h","e"," ","d","i","r","e","c","t","o","r","y">>,
      <<"g","o"," ","t","o">>,
      <<"w","h","e","r","e"," ","a","m"," ","i">>,
      <<"c","r","e","a","t","e"," ","f","o","l","d","e","r">>,
      <<"C","R","E","A","T","E"," ","F","O","L","D","E","R">>,
      <<"d","e","l","e","t","e"," ","t","h","e"," ","f","i","l","e">>,
      <<"h","o","w"," ","m","u","c","h"," ","c","p","u">>,
      <<"s","h","o","w"," ","r","u","n","n","i","n","g"," ","p","r","o","c","e","s","s","e","s">>,
      \* a base pattern and an extended pattern both match
      <<"d","e","l","e","t","e"," ","t","h","e"," ","d","i","r","e","c","t","o","r","y">>,
      <<"h","o","w"," ","m","u","c","h"," ","m","e","m","o","r","y"," ","u","s","a","g","e">>,
      <<"s","h","o","w"," ","a","l","l"," ","f","i","l","e","s">>,
      <<"c","r","e","a","t","e"," ","a"," ","f","o","l","d","e","r">>,
      \* extended patterns only
      <<"c","r","e","a","t","e"," ","a"," ","n","e","w"," ","f","o","l","d","e","r">>,
      <<"m","a","k","e"," ","d","i","r">>,
      <<"r","e","m","o","v","e"," ","t","h","e"," ","d","i","r","e","c","t","o","r","y">>,
      <<"o","p","e","n"," ","t","h","e"," ","f","i","l","e">>,
      <<"o","p","e","n">>,
      <<"r","e","a","d"," ","t","h","e"," ","f","i","l","e">>,
      <<"f","i","n","d">>,
      <<"m","e","m","o","r","y"," ","u","s","a","g","e">>,
      <<"l","i","s","t"," ","a","l","l"," ","f","i","l","e","s">>,
      <<"h","e","l","p"," ","m","e">>,
      <<"e","x","i","t"," ","t","h","e"," ","p","r","o","g","r","a","m">>,
      <<"c","l","e","a","r"," ","t","h","e"," ","s","c","r","e","e","n">>,
      <<"b","y","e">>,
      <<"u","p","t","i","m","e">>,
      \* a match inside the text, and whitespace around and within it
      <<"p","l","e","a","s","e"," ","s","h","o","w"," ","t","h","e"," ","f","i","l","e","s">>,
      <<"n","o","w"," ","g","o"," ","t","o">>,
      <<" "," ","s","h","o","w"," "," "," ","f","i","l","e","s"," ">>,
      \* no pattern, a keyword
      <<"c","r","e","a","t","e">>,
      <<"p","l","e","a","s","e"," ","s","h","o","w">>,
      <<"f","i","l","e","s">>,
      <<"q","u","i","t"," ","n","o","w">>,
      <<"h","e","l","p">>,
      <<"e","r","a","s","e">>,
      <<"e","r","a","s","e"," ","f","i","l","e","s">>,
      <<"f","r","o","b","n","i","c","a","t","e"," ","t","h","e"," ","r","a","m">>,
      \* nothing recognized
      <<"r","a","n","d","o","m"," ","g","i","b","b","e","r","i","s","h"," ","t","e","x","t">>,
      <<"z","z","z">>,
      <<>> }

NlArgWords == {<<"d">>, <<"N","o","t","e","s">>}

NlArgLists == UNION {[1..n -> NlArgWords] : n \in 0..MaxNlArgs}

\* the texts handed to the parser: a phrase and the words after it
NlTexts ==
    {IF a = <<>> THEN p ELSE p \o S_space \o JoinWith(a, S_space)
        : p \in NlPhrases, a \in NlArgLists}

NlInit ==
    /\ EnvIdle
    /\ JailIdle
    /\ FsIdle
    /\ HistIdle
    /\ RegIdle
    /\ CliIdle
    /\ nl_text \in NlTexts
    /\ nl_ret = NoCall

\* one call NaturalLanguageParser().parse(nl_text)
NlParse ==
    /\ nl_ret.op = ""
    /\ nl_ret' = [op |-> "parse", arg |-> nl_text, before |-> <<>>,
                  ret |-> parse(nl_text), raised |-> ""]
    /\ UNCHANGED <<env_vars, jail_vars, fs_vars, hist_vars, reg_vars, cli_vars, nl_text>>

NlNext == NlParse

SpecNl == NlInit /\ [][NlNext]_all_vars

-----------------------------------------------------------------------------
(* Claims about the natural-language parser, checked under SpecNl *)

\* the text as parse matches it
Normalized(text) == StrLower(Strip(text))

\* the rules of a table that match somewhere in a text, by their place
MatchingRules(table, text) ==
    {k \in 1..Len(table) : re_search(table[k].re, text).matched}

\* the least of a set of numbers that is not empty
Least(S) == CHOOSE k \in S : \A j \in S : k <= j

\* the first capture group of a rule's match in a text, split at whitespace
CapturedArgs(rule, text) ==
    LET m == re_search(rule.re, text)
    IN  IF m.groups.set THEN SplitWhitespace(m.groups.text) ELSE <<>>

\* what parse returns when the rule decides
Decides(rule, text, ret) ==
    /\ ret.command = rule.command
    /\ ret.args = CapturedArgs(rule, text)

FixedLength(rule, text) ==
    Only({ LET a == Least({k \in 1..Len(found) : found[k] # <<>>})
               m == Head(found[a])
           IN  (m.e - (a - 1)) - (IF m.g.set THEN Len(m.g.text) ELSE 0)
           : found \in {AsTuple([k \in 1..(Len(text) + 1) |->
                                    Matches(rule.re, text, k - 1, NoGroup)])} })

\* C13: the table is ordered by specificity: when parse has answered, no
\* pattern that matches the text, maps to another command than the one
\* returned and spells out more of the text (is more specific) than the
\* pattern that decided exists; so 'open the file d' resolves to cat, 'how
\* much memory usage' to mem and 'delete the directory d' to rm -r.
C13_SpecificPatternWins ==
    (nl_ret.op = "parse" /\ Strip(nl_ret.arg) # <<>>) =>
        /\ \A text \in {Normalized(nl_ret.arg)} :
             \A M \in {MatchingRules(patterns, text)} :
                 M # {} =>
                     \A k \in M :
                         patterns[k].command # nl_ret.ret.command =>
                             FixedLength(patterns[k], text)
                                 <= FixedLength(patterns[Least(M)], text)
        /\ nl_ret.arg = <<"o","p","e","n"," ","t","h","e"," ","f","i","l","e"," ","d">>
               => nl_ret.ret.command = <<"c","a","t">>
        /\ nl_ret.arg = <<"h","o","w"," ","m","u","c","h"," ","m","e","m","o","r","y"," ","u","s","a","g","e">>
               => nl_ret.ret.command = <<"m","e","m">>
        /\ nl_ret.arg = <<"d","e","l","e","t","e"," ","t","h","e"," ","d","i","r","e","c","t","o","r","y"," ","d">>
               => nl_ret.ret.command = <<"r","m"," ","-","r">>

\* the places of the tokens of a text that are keys of keyword_map
KeywordPlaces(tokens) ==
    {i \in 1..Len(tokens) : \E k \in 1..Len(keyword_map) : keyword_map[k].word = tokens[i]}

\* keyword_map[word] for a word that is a key
KeywordCommand(word) ==
    keyword_map[CHOOSE k \in 1..Len(keyword_map) : keyword_map[k].word = word].command

\* C14: when no pattern matches the normalized text, parse returns the
\* command keyword_map gives for the first token that is a keyword, with all
\* the tokens after that one as args; when no token is a keyword it returns
\* the empty command with no args.
C14_KeywordFallback ==
    (nl_ret.op = "parse" /\ Strip(nl_ret.arg) # <<>>) =>
        \A text \in {Normalized(nl_ret.arg)} :
            (MatchingRules(NL_PATTERNS, text) = {}
             /\ MatchingRules(extended_patterns, text) = {}) =>
                LET tokens == SplitWhitespace(text)
                    K == KeywordPlaces(tokens)
                IN  IF K = {}
                    THEN nl_ret.ret = [command |-> <<>>, args |-> <<>>]
                    ELSE /\ nl_ret.ret.command = KeywordCommand(tokens[Least(K)])
                         /\ nl_ret.ret.args = SubSeq(tokens, Least(K) + 1, Len(tokens))

\* parse has answered 'please show d Notes', which no pattern matches: the
\* keyword is its second token, and the two words after it are the args
C14_Witness ==
    /\ nl_ret.op = "parse"
    /\ nl_ret.arg = <<"p","l","e","a","s","e"," ","s","h","o","w"," ","d"," ","N","o","t","e","s">>
    /\ MatchingRules(patterns, Normalized(nl_ret.arg)) = {}
    /\ nl_ret.ret.command = <<"l","s">>
    /\ nl_ret.ret.args = <<<<"d">>, <<"n","o","t","e","s">>>>

====
